---- MODULE Spec2Model ----
(***************************************************************************)
(* SmartLocker: the four-machine controller sketch (src/unnamed/part_006,  *)
(* from its line 134 on) with the Bluetooth adapter it is linked against   *)
(* (src/SmartLocker_TTGO/bt_comm.cpp, first translation unit).             *)
(*                                                                         *)
(* One loop() iteration is five calls; pc names the call that runs next.   *)
(* Each call is one action.  The environment (sensors, keypad, bridge,     *)
(* wall clock) moves between the calls.  The specifications run the same   *)
(* program in different environments: Spec (the authorization exchange,    *)
(* the sensors at rest), SpecVisit (one identifier, the door used as       *)
(* meant), SpecDoor (the sensors move freely, no identifier is entered),   *)
(* SpecFault (implausible readings), SpecKeypad (the keypad alone) and     *)
(* SpecGlitch (single samples that differ from the sensor levels);         *)
(* FairReturn, FairLink and FairExchange add that loop() keeps running and *)
(* time passes.  The sketches of src/unnamed/part_007 and the Bluetooth    *)
(* adapter of src/unnamed/part_005 are programs of their own, each kept in *)
(* one record variable and run by its own specification (SpecServer,       *)
(* SpecClient, SpecAdapter).                                               *)
(*                                                                         *)
(* Time.  The code stores millis() stamps and compares millis()-stamp with *)
(* a threshold.  The model stores, for every stamp, the elapsed time since *)
(* it was written (since[stamp]), saturated just above the largest         *)
(* threshold the stamp is compared with.  Record time stamps are omitted.  *)
(***************************************************************************)
EXTENDS Integers, Sequences, FiniteSets, TLC

\* ------------------------------------------------------------------ bounds
\* longest identifier the keypad is driven to (the code has no maximum)
MaxInputLen == 8

\* the longest identifier typed in a run of the keypad alone
MaxTypedLen == 10
\* authorization requests issued in one run
MaxRequests == 2
\* authorization requests issued in one run in which the door is used
MaxVisitRequests == 1
\* the coarse step of the wall clock, in ms
TimeStep == 5000

\* --------------------------------------------------------- program constants
DOOR_OPEN_TIMEOUT_MS == 10000
INPUT_TIMEOUT_MS == 15000
AUTH_TIMEOUT_MS == 5000
SENSOR_DEBOUNCE_MS == 200
CONNECT_WINDOW_MS == 2000
MIN_ID_LENGTH == 8

\* the longest identifier of the configuration
MAX_STUDENT_ID_LENGTH == 9
IR_BOX_THRESHOLD == 2800
IR_DOOR_THRESHOLD == 2500
RAW_IMPLAUSIBLE_BELOW == 100
SENSOR_FAIL_LIMIT == 10
ERROR_FLASH_PERIOD_MS == 500
ERROR_FLASH_ON_MS == 250
SHORT_DELAY_MS == 2000
LONG_DELAY_MS == 3000
BOOT_DELAY_MS == 2000

\* the client-mode sketch: the period of its link check, and the spacing
\* LockerBluetooth::connect() keeps between two attempts
STATUS_CHECK_MS == 2000
BT_CONNECT_SPACING_MS == 5000
\* config.h of the client-mode sketch is not among the sources: the reconnect
\* interval is taken as the spacing of connect(), the connect timeout as the
\* window the four-machine controller uses in the same place
BT_RECONNECT_INTERVAL_MS == BT_CONNECT_SPACING_MS
BT_CONNECT_TIMEOUT_MS == CONNECT_WINDOW_MS

\* ------------------------------------------------------------------- values
LockerStates ==
  {"IDLE_AVAILABLE", "IDLE_OCCUPIED", "AWAITING_ID", "AUTHENTICATING",
   "BORROW_AUTHORIZED", "BORROW_IN_PROGRESS", "BORROW_COMPLETING",
   "RETURN_IN_PROGRESS", "RETURN_COMPLETING", "ERROR_STATE", "MAINTENANCE"}

CommStates ==
  {"IDLE", "CONNECTING", "SENDING_AUTH", "WAITING_RESPONSE",
   "PROCESSING_RESPONSE", "OFFLINE_MODE", "ERROR"}

SecurityStates ==
  {"DOOR_CLOSED_BOX_PRESENT", "DOOR_CLOSED_BOX_ABSENT",
   "DOOR_OPEN_BOX_PRESENT", "DOOR_OPEN_BOX_ABSENT", "SENSOR_ERROR"}

\* analogRead levels: implausible, below both thresholds, above both
RawLevels == {0, 1000, 3000}
PlausibleLevels == {v \in RawLevels : v >= RAW_IMPLAUSIBLE_BELOW}

\* keypad: NoKey is getKey()'s 0
NoKey == "none"
Digits == {"1"}
Keys == Digits \cup {"#", "*", "A", "B", "D"}

\* strings are sequences of characters
EmptyString == << >>
OK == <<"O", "K">>
DENIED == <<"D", "E", "N", "I", "E", "D">>
UNKNOWN == <<"U", "N", "K", "N", "O", "W", "N">>

\* lines the bridge may write (without the terminating newline)
ReplyLines ==
  { <<" ", "o", "k", " ">>, <<"D", "E", "N", "I", "E", "D">>, <<"?">> }

\* the synonyms of spec section 4.2
ApprovalSynonyms ==
  { <<"O", "K">>, <<"G", "R", "A", "N", "T", "E", "D">>,
    <<"S", "U", "C", "C", "E", "S", "S">> }
RejectionSynonyms ==
  { <<"D", "E", "N", "I", "E", "D">>, <<"N", "O">>, <<"F", "A", "I", "L">>,
    <<"E", "R", "R", "O", "R">> }

NoReply == [req |-> 0, text |-> EmptyString]

VARIABLES
  pc,                    \* the call of loop() that runs next
  currentLockerState, currentCommState, currentUIState, currentSecurityState,
  since,                 \* elapsed ms since each millis() stamp was written
  currentStudentID, inputBuffer, lastBorrowerID,
  isNetworkAvailable, authorizationPending, authorizationResult,
  lastDoorState, lastBoxState,
  sensorFailCount,       \* static of handleEmergencyConditions
  doorLocked,            \* last command to doorServo was lock()
  greenLed, redLed,
  \* environment
  doorRaw, boxRaw,       \* what analogRead returns now
  key,                   \* what keypad.getKey() returns on its next call
  btHasClient,           \* _bt.hasClient()
  btRx,                  \* complete lines written by the bridge, unread
  bridgeOwes,            \* requests whose frame the bridge holds unanswered
  \* history
  emitted,               \* records logTransaction printed in the latest call;
                         \* sent: also relayed to the bridge
  unrelayed,             \* some record was printed and not relayed
  reqNo,                 \* requestAuthorization calls so far
  lastReply,             \* the reply the current exchange consumed, if any
  forcedEntry,           \* "none" / "open": breach logged / "closed": then reported closed
  authorizedOpening,     \* the door is reported open, and was first so
                         \* while the locker machine was not idle
  \* the server-mode sketch, a program of its own
  server,                \* its globals, statics and environment
  \* the client-mode sketch, a program of its own
  client,                \* its globals, statics and environment
  \* the Bluetooth adapter of part_005, an object of its own
  piLink                 \* its members, its byte stream and its last call

vars ==
  <<pc, currentLockerState, currentCommState, currentUIState,
    currentSecurityState, since, currentStudentID, inputBuffer,
    lastBorrowerID, isNetworkAvailable, authorizationPending,
    authorizationResult, lastDoorState, lastBoxState, sensorFailCount,
    doorLocked, greenLed, redLed, doorRaw, boxRaw, key, btHasClient, btRx,
    bridgeOwes, emitted, unrelayed, reqNo, lastReply, forcedEntry,
    authorizedOpening, server, client,
    piLink>>

\* the state of the sketches and of the adapter of part_005, which the
\* four-machine controller never touches
sketchVars == <<server, client, piLink>>

\* the state of the four-machine controller and its environment
controllerVars ==
  <<pc, currentLockerState, currentCommState, currentUIState,
    currentSecurityState, since, currentStudentID, inputBuffer,
    lastBorrowerID, isNetworkAvailable, authorizationPending,
    authorizationResult, lastDoorState, lastBoxState, sensorFailCount,
    doorLocked, greenLed, redLed, doorRaw, boxRaw, key, btHasClient, btRx,
    bridgeOwes, emitted, unrelayed, reqNo, lastReply, forcedEntry, authorizedOpening>>

lockerVars ==
  <<currentLockerState, currentStudentID, inputBuffer, lastBorrowerID,
    doorLocked, greenLed, redLed>>
commVars ==
  <<currentCommState, isNetworkAvailable, authorizationPending,
    authorizationResult>>
securityVars == <<currentSecurityState, lastDoorState, lastBoxState>>
envVars == <<doorRaw, boxRaw, btHasClient>>

\* ------------------------------------------------------------------- clocks
Min(a, b) == IF a < b THEN a ELSE b

\* where each elapsed time saturates: one above the largest threshold
ClockCap ==
  [ stateEntryTime   |-> DOOR_OPEN_TIMEOUT_MS + 1,
    lastSensorCheck  |-> SENSOR_DEBOUNCE_MS,
    inputStartTime   |-> INPUT_TIMEOUT_MS + 1,
    authStartTime    |-> AUTH_TIMEOUT_MS + 1,
    doorDebounceTime |-> SENSOR_DEBOUNCE_MS + 1,
    boxDebounceTime  |-> SENSOR_DEBOUNCE_MS + 1,
    lastFlash        |-> ERROR_FLASH_PERIOD_MS + 1,
    lastKeyActivity  |-> INPUT_TIMEOUT_MS + 1 ]

\* the clocks after d more ms
Elapse(clk, d) == [c \in DOMAIN clk |-> Min(clk[c] + d, ClockCap[c])]

\* the stamp named c was just written
Stamp(clk, c) == [clk EXCEPT ![c] = 0]

\* The states in which the stamp named c is compared with millis().  Every
\* entry into these states writes the stamp first, so outside them the
\* elapsed time is kept at its saturation value.
StampRead(c, locker, comm) ==
  CASE c = "stateEntryTime" ->
         locker \in {"BORROW_IN_PROGRESS", "RETURN_IN_PROGRESS"}
    [] c \in {"inputStartTime", "lastKeyActivity"} -> locker = "AWAITING_ID"
    [] c = "authStartTime" ->
         locker = "AUTHENTICATING" \/ comm \in {"CONNECTING", "WAITING_RESPONSE"}
    [] OTHER -> TRUE

Saturate(clk, locker, comm) ==
  [c \in DOMAIN clk |->
     IF StampRead(c, locker, comm) THEN clk[c] ELSE ClockCap[c]]

\* ------------------------------------------------------------------ sensors
IsTriggered(raw, threshold) == raw >= threshold
IsDoorClosed == IsTriggered(doorRaw, IR_DOOR_THRESHOLD)
IsBoxPresent == IsTriggered(boxRaw, IR_BOX_THRESHOLD)

\* the door x item truth table
Composite(doorClosed, boxPresent) ==
  IF doorClosed /\ boxPresent THEN "DOOR_CLOSED_BOX_PRESENT"
  ELSE IF doorClosed /\ ~boxPresent THEN "DOOR_CLOSED_BOX_ABSENT"
  ELSE IF ~doorClosed /\ boxPresent THEN "DOOR_OPEN_BOX_PRESENT"
  ELSE "DOOR_OPEN_BOX_ABSENT"

DoorOpenReported(sec) ==
  sec \in {"DOOR_OPEN_BOX_PRESENT", "DOOR_OPEN_BOX_ABSENT"}

\* a changed reading is taken when the last accepted change of that sensor is
\* more than one debounce interval old
DebounceElapsed(age) == age > SENSOR_DEBOUNCE_MS

\* The program's variables as one record m, so that a call is a function of
\* m: every call below maps m to the record the call leaves.
Machine ==
  [ currentLockerState |-> currentLockerState,
    currentCommState |-> currentCommState,
    currentSecurityState |-> currentSecurityState,
    clk |-> since,
    currentStudentID |-> currentStudentID,
    inputBuffer |-> inputBuffer,
    lastBorrowerID |-> lastBorrowerID,
    isNetworkAvailable |-> isNetworkAvailable,
    authorizationPending |-> authorizationPending,
    authorizationResult |-> authorizationResult,
    lastDoorState |-> lastDoorState,
    lastBoxState |-> lastBoxState,
    sensorFailCount |-> sensorFailCount,
    doorLocked |-> doorLocked,
    greenLed |-> greenLed,
    redLed |-> redLed,
    key |-> key,
    btRx |-> btRx,
    bridgeOwes |-> bridgeOwes,
    emitted |-> << >>,
    reqNo |-> reqNo,
    lastReply |-> lastReply,
    forcedEntry |-> forcedEntry ]

IdleStates == {"IDLE_AVAILABLE", "IDLE_OCCUPIED"}

\* history is kept while the locker machine is in the states it names
AuthEpisode == {"AUTHENTICATING", "BORROW_AUTHORIZED"}

\* the variables after a call that left m
Commit(m) ==
  /\ currentLockerState' = m.currentLockerState
  /\ currentCommState' = m.currentCommState
  /\ currentSecurityState' = m.currentSecurityState
  /\ since' = Saturate(m.clk, m.currentLockerState, m.currentCommState)
  /\ currentStudentID' = m.currentStudentID
  /\ inputBuffer' = m.inputBuffer
  /\ lastBorrowerID' = m.lastBorrowerID
  /\ isNetworkAvailable' = m.isNetworkAvailable
  /\ authorizationPending' = m.authorizationPending
  /\ authorizationResult' = m.authorizationResult
  /\ lastDoorState' = m.lastDoorState
  /\ lastBoxState' = m.lastBoxState
  /\ sensorFailCount' = m.sensorFailCount
  /\ doorLocked' = m.doorLocked
  /\ greenLed' = m.greenLed
  /\ redLed' = m.redLed
  /\ key' = m.key
  /\ btRx' = m.btRx
  /\ bridgeOwes' = m.bridgeOwes
  /\ emitted' = m.emitted
  /\ unrelayed' = (unrelayed \/ \E i \in 1..Len(m.emitted) : ~m.emitted[i].sent)
  /\ reqNo' = m.reqNo
  /\ lastReply' = IF m.currentLockerState \in AuthEpisode
                  THEN m.lastReply ELSE NoReply
  /\ forcedEntry' = IF m.currentLockerState \in IdleStates
                    THEN m.forcedEntry ELSE "none"
  /\ authorizedOpening' =
       IF ~DoorOpenReported(m.currentSecurityState) THEN FALSE
       ELSE IF ~DoorOpenReported(currentSecurityState)
       THEN currentLockerState \notin IdleStates
       ELSE authorizedOpening
  /\ UNCHANGED <<currentUIState, envVars, sketchVars>>

\* updateSecurityState() when isDoorClosed() returns doorClosed and
\* isBoxPresent() returns boxPresent
SampleSensors(m, doorClosed, boxPresent) ==
  IF m.clk.lastSensorCheck < SENSOR_DEBOUNCE_MS THEN m
  ELSE
    LET c0 == Stamp(m.clk, "lastSensorCheck")
        doorChanged == doorClosed # m.lastDoorState
        boxChanged == boxPresent # m.lastBoxState
        m0 == [m EXCEPT !.clk = c0]
    IN
      IF doorChanged /\ ~DebounceElapsed(c0.doorDebounceTime) THEN m0
      ELSE
        LET m1 == IF doorChanged
                  THEN [m0 EXCEPT !.lastDoorState = doorClosed,
                                  !.clk = Stamp(c0, "doorDebounceTime")]
                  ELSE m0
        IN
          IF boxChanged /\ ~DebounceElapsed(m1.clk.boxDebounceTime) THEN m1
          ELSE
            LET m2 == IF boxChanged
                      THEN [m1 EXCEPT !.lastBoxState = boxPresent,
                                      !.clk = Stamp(m1.clk, "boxDebounceTime")]
                      ELSE m1
            IN [m2 EXCEPT !.currentSecurityState =
                            Composite(doorClosed, boxPresent)]

\* a sampling that takes the readings and reports no state
UpdateSecurityStateUnreported(m) ==
  [SampleSensors(m, IsDoorClosed, IsBoxPresent) EXCEPT
     !.currentSecurityState = m.currentSecurityState]

\* updateSecurityState(), reading the sensors as they are now
UpdateSecurityState(m) == SampleSensors(m, IsDoorClosed, IsBoxPresent)

\* history: a forced entry whose door is now reported closed
NoteClosure(m) ==
  IF m.forcedEntry = "open" /\ ~DoorOpenReported(m.currentSecurityState)
  THEN [m EXCEPT !.forcedEntry = "closed"]
  ELSE m

\* history: closures reported in earlier iterations are forgotten
NewIteration(m) ==
  IF m.forcedEntry = "closed" THEN [m EXCEPT !.forcedEntry = "none"] ELSE m

NextPhase(p) ==
  CASE p = "security" -> "locker"
    [] p = "locker" -> "comm"
    [] p = "comm" -> "ui"
    [] p = "ui" -> "emergency"
    [] p = "emergency" -> "security"

\* ------------------------------------------------------------------ helpers
\* LockerBluetooth::isConnected()
IsConnected == btHasClient

\* transitionToState(newState)
TransitionToState(m, newState) ==
  [m EXCEPT !.currentLockerState = newState,
            !.clk = Stamp(@, "stateEntryTime")]

\* delay(ms)
Delay(m, ms) == [m EXCEPT !.clk = Elapse(@, ms)]

\* keypad.getKey(): the key is read once; lastKeyActivity is not a variable
\* of the program, it records how long ago a key was last read
GetKey(m) ==
  [m EXCEPT !.key = NoKey,
            !.clk = IF m.key # NoKey THEN Stamp(@, "lastKeyActivity") ELSE @]

\* logTransaction(type, studentID): printed always, relayed only when the
\* bridge is connected (sendCode)
LogTransaction(m, type, studentID) ==
  [m EXCEPT !.emitted = Append(@, [kind |-> type, id |-> studentID,
                                   sent |-> IsConnected])]

\* requestAuthorization(studentID)
RequestAuthorization(m) ==
  [m EXCEPT !.authorizationPending = TRUE,
            !.clk = Stamp(@, "authStartTime"),
            !.currentCommState = "CONNECTING",
            !.reqNo = @ + 1,
            !.lastReply = NoReply]

\* ---------------------------------------------------------- locker handlers
HandleIdleAvailable(m) ==
  IF m.key = "#"
  THEN [TransitionToState(GetKey(m), "AWAITING_ID") EXCEPT
          !.inputBuffer = EmptyString,
          !.clk = Stamp(@, "inputStartTime")]
  ELSE GetKey(m)

\* a return that asks the bridge first
HandleIdleOccupiedAsking(m) ==
  IF m.key = "#"
  THEN RequestAuthorization(TransitionToState(GetKey(m), "AUTHENTICATING"))
  ELSE GetKey(m)

HandleIdleOccupied(m) ==
  IF m.key = "#"
  THEN [TransitionToState(GetKey(m), "RETURN_IN_PROGRESS") EXCEPT
          !.doorLocked = FALSE, !.greenLed = FALSE, !.redLed = TRUE]
  ELSE GetKey(m)

\* a confirm branch that accepts a buffer of any length
AnyLength(buffer) == Len(buffer) >= 0

ValidLength(buffer) == Len(buffer) >= MIN_ID_LENGTH

HandleAwaitingID(m) ==
  IF m.clk.inputStartTime > INPUT_TIMEOUT_MS
  THEN TransitionToState(m, "IDLE_AVAILABLE")
  ELSE
    LET k == m.key
        m0 == GetKey(m)
    IN
      IF k \in Digits THEN [m0 EXCEPT !.inputBuffer = Append(@, k)]
      ELSE IF k = "#" THEN
        IF ValidLength(m0.inputBuffer)
        THEN RequestAuthorization(
               TransitionToState(
                 [m0 EXCEPT !.currentStudentID = m0.inputBuffer],
                 "AUTHENTICATING"))
        ELSE [Delay(m0, SHORT_DELAY_MS) EXCEPT !.inputBuffer = EmptyString]
      ELSE IF k = "*" /\ Len(m0.inputBuffer) > 0
      THEN [m0 EXCEPT !.inputBuffer = SubSeq(@, 1, Len(@) - 1)]
      ELSE m0

\* the first if of handleAuthenticating: the answer of the comm machine
AuthAnswer(m) ==
  IF m.authorizationPending = FALSE
  THEN IF m.authorizationResult
       THEN TransitionToState(m, "BORROW_AUTHORIZED")
       ELSE TransitionToState(Delay(m, SHORT_DELAY_MS), "IDLE_AVAILABLE")
  ELSE m

\* the second if of handleAuthenticating: the timeout
AuthTimeout(m) ==
  IF m.clk.authStartTime > AUTH_TIMEOUT_MS
  THEN TransitionToState(Delay(m, SHORT_DELAY_MS), "IDLE_AVAILABLE")
  ELSE m

HandleAuthenticating(m) == AuthTimeout(AuthAnswer(m))

HandleBorrowAuthorized(m) ==
  TransitionToState(
    [m EXCEPT !.doorLocked = FALSE, !.greenLed = FALSE, !.redLed = TRUE,
              !.clk = Stamp(@, "stateEntryTime")],
    "BORROW_IN_PROGRESS")

\* a timeout that leaves the lock as it is
DoorOpenTimeoutReleased(m, idle) ==
  IF m.clk.stateEntryTime > DOOR_OPEN_TIMEOUT_MS
  THEN TransitionToState(Delay(m, SHORT_DELAY_MS), idle)
  ELSE m

\* the timeout of handleBorrowInProgress / handleReturnInProgress
DoorOpenTimeout(m, idle) ==
  IF m.clk.stateEntryTime > DOOR_OPEN_TIMEOUT_MS
  THEN TransitionToState(
         Delay([m EXCEPT !.doorLocked = TRUE], SHORT_DELAY_MS), idle)
  ELSE m

HandleBorrowInProgress(m) ==
  DoorOpenTimeout(
    IF m.currentSecurityState = "DOOR_OPEN_BOX_ABSENT"
    THEN TransitionToState(m, "BORROW_COMPLETING")
    ELSE m,
    "IDLE_AVAILABLE")

\* a completion that writes no record
HandleBorrowCompletingUnlogged(m) ==
  IF m.currentSecurityState = "DOOR_CLOSED_BOX_ABSENT"
  THEN TransitionToState(
         Delay([m EXCEPT !.doorLocked = TRUE,
                         !.lastBorrowerID = m.currentStudentID,
                         !.greenLed = TRUE, !.redLed = FALSE],
               LONG_DELAY_MS),
         "IDLE_OCCUPIED")
  ELSE IF m.currentSecurityState = "DOOR_CLOSED_BOX_PRESENT"
  THEN TransitionToState(
         Delay([m EXCEPT !.doorLocked = TRUE, !.greenLed = TRUE,
                         !.redLed = FALSE],
               SHORT_DELAY_MS),
         "IDLE_AVAILABLE")
  ELSE m

HandleBorrowCompleting(m) ==
  LET m1 ==
        IF m.currentSecurityState = "DOOR_CLOSED_BOX_ABSENT"
        THEN TransitionToState(
               Delay(
                 LogTransaction(
                   [m EXCEPT !.doorLocked = TRUE,
                             !.lastBorrowerID = m.currentStudentID,
                             !.greenLed = TRUE, !.redLed = FALSE],
                   "BORROW", m.currentStudentID),
                 LONG_DELAY_MS),
               "IDLE_OCCUPIED")
        ELSE m
  IN
    IF m1.currentSecurityState = "DOOR_CLOSED_BOX_PRESENT"
    THEN TransitionToState(
           Delay([m1 EXCEPT !.doorLocked = TRUE, !.greenLed = TRUE,
                            !.redLed = FALSE],
                 SHORT_DELAY_MS),
           "IDLE_AVAILABLE")
    ELSE m1

HandleReturnInProgress(m) ==
  DoorOpenTimeout(
    IF m.currentSecurityState = "DOOR_OPEN_BOX_PRESENT"
    THEN TransitionToState(m, "RETURN_COMPLETING")
    ELSE m,
    "IDLE_OCCUPIED")

\* a completion that keeps the borrower
HandleReturnCompletingKeeping(m) ==
  IF m.currentSecurityState = "DOOR_CLOSED_BOX_PRESENT"
  THEN TransitionToState(
         Delay(
           LogTransaction(
             [m EXCEPT !.doorLocked = TRUE, !.greenLed = TRUE,
                       !.redLed = FALSE],
             "RETURN", m.lastBorrowerID),
           LONG_DELAY_MS),
         "IDLE_AVAILABLE")
  ELSE IF m.currentSecurityState = "DOOR_CLOSED_BOX_ABSENT"
  THEN TransitionToState(
         Delay([m EXCEPT !.doorLocked = TRUE], SHORT_DELAY_MS),
         "IDLE_OCCUPIED")
  ELSE m

HandleReturnCompleting(m) ==
  LET m1 ==
        IF m.currentSecurityState = "DOOR_CLOSED_BOX_PRESENT"
        THEN TransitionToState(
               Delay(
                 [LogTransaction(
                    [m EXCEPT !.doorLocked = TRUE, !.greenLed = TRUE,
                              !.redLed = FALSE],
                    "RETURN", m.lastBorrowerID)
                  EXCEPT !.lastBorrowerID = EmptyString],
                 LONG_DELAY_MS),
               "IDLE_AVAILABLE")
        ELSE m
  IN
    IF m1.currentSecurityState = "DOOR_CLOSED_BOX_ABSENT"
    THEN TransitionToState(
           Delay([m1 EXCEPT !.doorLocked = TRUE], SHORT_DELAY_MS),
           "IDLE_OCCUPIED")
    ELSE m1

\* an error state that any key leaves
HandleErrorStateAnyKey(m) ==
  IF m.key # NoKey
  THEN TransitionToState(GetKey(m), "MAINTENANCE")
  ELSE GetKey(m)

HandleErrorState(m) ==
  LET m1 ==
        IF m.clk.lastFlash > ERROR_FLASH_PERIOD_MS
        THEN [Delay(m, ERROR_FLASH_ON_MS) EXCEPT
                !.redLed = FALSE, !.clk = Stamp(@, "lastFlash")]
        ELSE m
  IN
    IF m1.key = "D"
    THEN TransitionToState(GetKey(m1), "MAINTENANCE")
    ELSE GetKey(m1)

HandleMaintenance(m) ==
  LET k == m.key
      m0 == GetKey(m)
  IN
    IF k = "A" THEN [m0 EXCEPT !.doorLocked = FALSE]
    ELSE IF k = "B" THEN [m0 EXCEPT !.doorLocked = TRUE]
    ELSE IF k = "D" THEN
      TransitionToState(
        NoteClosure(UpdateSecurityState(m0)),
        IF IsBoxPresent THEN "IDLE_AVAILABLE" ELSE "IDLE_OCCUPIED")
    ELSE m0

\* processLockerStateMachine(): the switch
ProcessLockerStateMachine(m) ==
  CASE m.currentLockerState = "IDLE_AVAILABLE" -> HandleIdleAvailable(m)
    [] m.currentLockerState = "IDLE_OCCUPIED" -> HandleIdleOccupied(m)
    [] m.currentLockerState = "AWAITING_ID" -> HandleAwaitingID(m)
    [] m.currentLockerState = "AUTHENTICATING" -> HandleAuthenticating(m)
    [] m.currentLockerState = "BORROW_AUTHORIZED" -> HandleBorrowAuthorized(m)
    [] m.currentLockerState = "BORROW_IN_PROGRESS" -> HandleBorrowInProgress(m)
    [] m.currentLockerState = "BORROW_COMPLETING" -> HandleBorrowCompleting(m)
    [] m.currentLockerState = "RETURN_IN_PROGRESS" -> HandleReturnInProgress(m)
    [] m.currentLockerState = "RETURN_COMPLETING" -> HandleReturnCompleting(m)
    [] m.currentLockerState = "ERROR_STATE" -> HandleErrorState(m)
    [] m.currentLockerState = "MAINTENANCE" -> HandleMaintenance(m)

\* ------------------------------------------------------- Bluetooth adapter
Whitespace == {" "}

ToUpperChar(c) ==
  CASE c = "o" -> "O"
    [] c = "k" -> "K"
    [] c = "a" -> "A"
    [] c = "d" -> "D"
    [] c = "e" -> "E"
    [] c = "n" -> "N"
    [] c = "r" -> "R"
    [] c = "t" -> "T"
    [] c = "y" -> "Y"
    [] OTHER -> c

ToUpperCase(str) == [i \in 1..Len(str) |-> ToUpperChar(str[i])]

RECURSIVE TrimLeft(_)
TrimLeft(str) ==
  IF str # << >> /\ Head(str) \in Whitespace THEN TrimLeft(Tail(str)) ELSE str

RECURSIVE TrimRight(_)
TrimRight(str) ==
  IF str # << >> /\ str[Len(str)] \in Whitespace
  THEN TrimRight(SubSeq(str, 1, Len(str) - 1))
  ELSE str

Trim(str) == TrimRight(TrimLeft(str))

\* what readResponse() makes of one complete line
Normalize(line) == ToUpperCase(Trim(line))

\* LockerBluetooth::readResponse(): the first complete line, normalized, or
\* "" when there is none; text is what it returns, rest what stays unread,
\* req the request the bridge wrote the line for
ReadResponse(rx) ==
  IF rx = << >>
  THEN [text |-> EmptyString, rest |-> rx, req |-> 0]
  ELSE [text |-> Normalize(Head(rx).line), rest |-> Tail(rx),
        req |-> Head(rx).req]

\* ------------------------------------------------- communication machine
\* anything but a refusal counts as a grant
IsNotDenied(response) == response # DENIED

\* response == "OK"
IsGrant(response) == response = OK

CommConnecting(m) ==
  IF IsConnected THEN [m EXCEPT !.currentCommState = "SENDING_AUTH"]
  ELSE IF m.clk.authStartTime > CONNECT_WINDOW_MS
  THEN [m EXCEPT !.currentCommState = "OFFLINE_MODE",
                 !.isNetworkAvailable = FALSE]
  ELSE m

\* bluetooth.sendCode(currentStudentID) succeeds when a client is connected;
\* the bridge then holds the frame of request reqNo
CommSendingAuth(m) ==
  IF IsConnected
  THEN [m EXCEPT !.currentCommState = "WAITING_RESPONSE",
                 !.clk = Stamp(@, "authStartTime"),
                 !.bridgeOwes = @ \cup {m.reqNo}]
  ELSE [m EXCEPT !.currentCommState = "ERROR"]

CommWaitingResponse(m) ==
  LET r == ReadResponse(m.btRx)
      m0 == [m EXCEPT !.btRx = r.rest]
  IN
    IF r.text # EmptyString
    THEN [m0 EXCEPT !.authorizationResult = IsGrant(r.text),
                    !.authorizationPending = FALSE,
                    !.currentCommState = "IDLE",
                    !.lastReply = [req |-> r.req, text |-> r.text]]
    ELSE IF m0.clk.authStartTime > AUTH_TIMEOUT_MS
    THEN [m0 EXCEPT !.currentCommState = "ERROR",
                    !.authorizationPending = FALSE,
                    !.authorizationResult = FALSE]
    ELSE m0

\* an OFFLINE_MODE case that clears the request and leaves the result alone
CommOfflineModeKeepingResult(m) ==
  [m EXCEPT !.authorizationPending = FALSE,
            !.currentCommState = "IDLE"]

CommOfflineMode(m) ==
  [m EXCEPT !.authorizationPending = FALSE,
            !.authorizationResult = FALSE,
            !.currentCommState = "IDLE"]

\* an ERROR case that leaves the link marked as it was
CommErrorKeepingLink(m) ==
  [m EXCEPT !.authorizationPending = FALSE,
            !.authorizationResult = FALSE,
            !.currentCommState = "IDLE"]

CommError(m) ==
  [m EXCEPT !.isNetworkAvailable = FALSE,
            !.authorizationPending = FALSE,
            !.authorizationResult = FALSE,
            !.currentCommState = "IDLE"]

\* processCommStateMachine() with an ERROR case that also forgets the
\* identifier of the request
ProcessCommStateMachineForgetting(m) ==
  CASE m.currentCommState = "IDLE" -> m
    [] m.currentCommState = "CONNECTING" -> CommConnecting(m)
    [] m.currentCommState = "SENDING_AUTH" -> CommSendingAuth(m)
    [] m.currentCommState = "WAITING_RESPONSE" -> CommWaitingResponse(m)
    [] m.currentCommState = "PROCESSING_RESPONSE" ->
         [m EXCEPT !.currentCommState = "IDLE"]
    [] m.currentCommState = "OFFLINE_MODE" -> CommOfflineMode(m)
    [] m.currentCommState = "ERROR" ->
         [CommError(m) EXCEPT !.currentStudentID = EmptyString]

\* processCommStateMachine(): the switch
ProcessCommStateMachine(m) ==
  CASE m.currentCommState = "IDLE" -> m
    [] m.currentCommState = "CONNECTING" -> CommConnecting(m)
    [] m.currentCommState = "SENDING_AUTH" -> CommSendingAuth(m)
    [] m.currentCommState = "WAITING_RESPONSE" -> CommWaitingResponse(m)
    [] m.currentCommState = "PROCESSING_RESPONSE" ->
         [m EXCEPT !.currentCommState = "IDLE"]
    [] m.currentCommState = "OFFLINE_MODE" -> CommOfflineMode(m)
    [] m.currentCommState = "ERROR" -> CommError(m)

\* ------------------------------------------------------ system-wide events
Implausible == doorRaw < RAW_IMPLAUSIBLE_BELOW \/ boxRaw < RAW_IMPLAUSIBLE_BELOW

\* the sensor-failure part of handleEmergencyConditions(); the count is kept
\* up to one above the limit
SensorFailureCheck(m) ==
  IF Implausible
  THEN LET n == Min(m.sensorFailCount + 1, SENSOR_FAIL_LIMIT + 1)
           m0 == [m EXCEPT !.sensorFailCount = n]
       IN IF n > SENSOR_FAIL_LIMIT
          THEN TransitionToState(m0, "ERROR_STATE")
          ELSE m0
  ELSE [m EXCEPT !.sensorFailCount = 0]

\* the recovery attempt inside the forced-entry branch
ForcedEntryRecovery(m) ==
  IF IsDoorClosed
  THEN TransitionToState(
         NoteClosure(UpdateSecurityState([m EXCEPT !.doorLocked = TRUE])),
         IF IsBoxPresent THEN "IDLE_AVAILABLE" ELSE "IDLE_OCCUPIED")
  ELSE m

\* a forced-entry check that raises the alert and writes no record
ForcedEntryCheckSilent(m) ==
  IF /\ m.currentLockerState \in IdleStates
     /\ DoorOpenReported(m.currentSecurityState)
  THEN ForcedEntryRecovery([m EXCEPT !.redLed = TRUE, !.forcedEntry = "open"])
  ELSE m

\* the forced-entry part of handleEmergencyConditions()
ForcedEntryCheck(m) ==
  IF /\ m.currentLockerState \in IdleStates
     /\ DoorOpenReported(m.currentSecurityState)
  THEN ForcedEntryRecovery(
         [LogTransaction([m EXCEPT !.redLed = TRUE], "SECURITY_BREACH", UNKNOWN)
          EXCEPT !.forcedEntry = "open"])
  ELSE m

HandleEmergencyConditions(m) == ForcedEntryCheck(SensorFailureCheck(m))

\* ---------------------------------------------------------------- the loop
\* loop(): updateSecurityState();
SecurityStep ==
  /\ pc = "security"
  /\ Commit(NoteClosure(UpdateSecurityState(NewIteration(Machine))))
  /\ pc' = NextPhase(pc)

\* loop(): updateSecurityState(); with a reading that differs from the level
\* of its sensor for this one sample: the level is the same before and after
SensorGlitch ==
  /\ pc = "security"
  /\ \E doorClosed \in BOOLEAN, boxPresent \in BOOLEAN :
       /\ <<doorClosed, boxPresent>> # <<IsDoorClosed, IsBoxPresent>>
       /\ Commit(NoteClosure(
                   SampleSensors(NewIteration(Machine), doorClosed, boxPresent)))
  /\ pc' = NextPhase(pc)

\* loop(): processLockerStateMachine();
LockerStep ==
  /\ pc = "locker"
  /\ Commit(ProcessLockerStateMachine(Machine))
  /\ pc' = NextPhase(pc)

\* loop(): processCommStateMachine();
CommStep ==
  /\ pc = "comm"
  /\ Commit(ProcessCommStateMachine(Machine))
  /\ pc' = NextPhase(pc)

\* processUIStateMachine(): currentUIState is DISPLAY_STATUS from its
\* initializer on (its one assignment writes DISPLAY_STATUS again); that
\* case writes the display and the stamp lastDisplayUpdate, which no other
\* function reads, and nothing else
ProcessUIStateMachine(m) == m

\* loop(): processUIStateMachine();
UIStep ==
  /\ pc = "ui"
  /\ Commit(ProcessUIStateMachine(Machine))
  /\ pc' = NextPhase(pc)

\* loop(): handleEmergencyConditions();
EmergencyStep ==
  /\ pc = "emergency"
  /\ Commit(HandleEmergencyConditions(Machine))
  /\ pc' = NextPhase(pc)

\* ----------------------------------------------------------- environment
KeyReadingStates ==
  {"IDLE_AVAILABLE", "IDLE_OCCUPIED", "AWAITING_ID", "ERROR_STATE",
   "MAINTENANCE"}

\* the keys the handler of a state tells apart, and one it ignores
KeysRead(locker) ==
  CASE locker \in IdleStates -> {"#", "*"}
    [] locker = "AWAITING_ID" -> Digits \cup {"#", "*", "A"}
    [] locker = "ERROR_STATE" -> {"D", "#"}
    [] locker = "MAINTENANCE" -> {"A", "B", "D", "#"}

\* a key is pressed just before the handler that scans the keypad; the keypad
\* is driven within the bounds: keys from offered, at most maxReq requests,
\* at most maxLen digits typed
PressWithin(offered, maxReq, maxLen) ==
  /\ pc = "locker"
  /\ key = NoKey
  /\ currentLockerState \in KeyReadingStates
  /\ \E k \in KeysRead(currentLockerState) \cap offered :
       /\ (currentLockerState = "AWAITING_ID" /\ k \in Digits)
            => Len(inputBuffer) < maxLen
       /\ (currentLockerState = "AWAITING_ID" /\ k = "#"
             /\ ValidLength(inputBuffer))
            => reqNo < maxReq
       /\ key' = k
  /\ UNCHANGED <<sketchVars, pc, lockerVars, commVars, securityVars, envVars,
                 currentUIState, since, sensorFailCount, btRx, bridgeOwes,
                 emitted, unrelayed, reqNo, lastReply, forcedEntry, authorizedOpening>>

Press(offered, maxReq) == PressWithin(offered, maxReq, MaxInputLen)

PressKey == Press(Keys, MaxRequests)

\* the keypad in a run in which the door is used
PressKeyOnVisit == Press(Keys, MaxVisitRequests)

\* the keypad alone, identifiers longer than the configured maximum included
PressLongID == PressWithin(Keys, MaxRequests, MaxTypedLen)

\* the keypad without the digits: no identifier is entered
PressFunctionKey == Press(Keys \ Digits, MaxRequests)

\* the keypad in a run with faulty sensors: no key while an identifier is
\* awaited
PressServiceKey ==
  /\ currentLockerState \in KeyReadingStates \ {"AWAITING_ID"}
  /\ PressFunctionKey

\* The environment moves just before a call that can observe the move: a
\* move at any other point of the iteration is seen by the same call.
SensorReadPoints == {"security", "emergency"}
LinkReadPoints == {"locker", "comm", "emergency"}

\* a sensor's reading changes: the door is moved whatever the lock does
DoorChanges ==
  /\ pc \in SensorReadPoints
  /\ \E v \in PlausibleLevels \ {doorRaw} : doorRaw' = v
  /\ UNCHANGED <<sketchVars, pc, lockerVars, commVars, securityVars, boxRaw, btHasClient,
                 currentUIState, since, sensorFailCount, key, btRx,
                 bridgeOwes, emitted, unrelayed, reqNo, lastReply, forcedEntry, authorizedOpening>>

BoxChanges ==
  /\ pc \in SensorReadPoints
  /\ \E v \in PlausibleLevels \ {boxRaw} : boxRaw' = v
  /\ UNCHANGED <<sketchVars, pc, lockerVars, commVars, securityVars, doorRaw, btHasClient,
                 currentUIState, since, sensorFailCount, key, btRx,
                 bridgeOwes, emitted, unrelayed, reqNo, lastReply, forcedEntry, authorizedOpening>>

\* the door is opened only while the lock is released, and closed at any time
DoorMoves ==
  /\ pc \in SensorReadPoints
  /\ IsDoorClosed => ~doorLocked
  /\ \E v \in PlausibleLevels \ {doorRaw} : doorRaw' = v
  /\ UNCHANGED <<sketchVars, pc, lockerVars, commVars, securityVars, boxRaw, btHasClient,
                 currentUIState, since, sensorFailCount, key, btRx,
                 bridgeOwes, emitted, unrelayed, reqNo, lastReply, forcedEntry, authorizedOpening>>

\* the item is taken or put back through the open door
ItemMoves ==
  /\ pc \in SensorReadPoints
  /\ ~IsDoorClosed
  /\ \E v \in PlausibleLevels \ {boxRaw} : boxRaw' = v
  /\ UNCHANGED <<sketchVars, pc, lockerVars, commVars, securityVars, doorRaw, btHasClient,
                 currentUIState, since, sensorFailCount, key, btRx,
                 bridgeOwes, emitted, unrelayed, reqNo, lastReply, forcedEntry, authorizedOpening>>

\* the calls that read a sensor: handleMaintenance reads the box sensor too
FaultReadPoints(locker) ==
  IF locker = "MAINTENANCE"
  THEN SensorReadPoints \cup {"locker"}
  ELSE SensorReadPoints

\* a sensor's reading changes to any level, the implausible one included
DoorSensorReads ==
  /\ pc \in FaultReadPoints(currentLockerState)
  /\ \E v \in RawLevels \ {doorRaw} : doorRaw' = v
  /\ UNCHANGED <<sketchVars, pc, lockerVars, commVars, securityVars, boxRaw, btHasClient,
                 currentUIState, since, sensorFailCount, key, btRx,
                 bridgeOwes, emitted, unrelayed, reqNo, lastReply, forcedEntry, authorizedOpening>>

BoxSensorReads ==
  /\ pc \in FaultReadPoints(currentLockerState)
  /\ \E v \in RawLevels \ {boxRaw} : boxRaw' = v
  /\ UNCHANGED <<sketchVars, pc, lockerVars, commVars, securityVars, doorRaw, btHasClient,
                 currentUIState, since, sensorFailCount, key, btRx,
                 bridgeOwes, emitted, unrelayed, reqNo, lastReply, forcedEntry, authorizedOpening>>

\* the bridge connects or goes away
LinkChanges ==
  /\ pc \in LinkReadPoints
  /\ btHasClient' = ~btHasClient
  /\ UNCHANGED <<sketchVars, pc, lockerVars, commVars, securityVars, doorRaw, boxRaw,
                 currentUIState, since, sensorFailCount, key, btRx,
                 bridgeOwes, emitted, unrelayed, reqNo, lastReply, forcedEntry, authorizedOpening>>

\* the bridge answers a request frame it holds, with any line, at any time
BridgeReplies ==
  /\ pc = "comm"
  /\ btHasClient
  /\ \E n \in bridgeOwes, line \in ReplyLines :
       /\ btRx' = Append(btRx, [line |-> line, req |-> n])
       /\ bridgeOwes' = bridgeOwes \ {n}
  /\ UNCHANGED <<sketchVars, pc, lockerVars, commVars, securityVars, envVars,
                 currentUIState, since, sensorFailCount, key, emitted, unrelayed, reqNo,
                 lastReply, forcedEntry, authorizedOpening>>

\* the wall clock advances by TimeStep between two iterations of loop();
\* within an iteration time passes in the delay() calls only
TimePasses ==
  /\ pc = "security"
  /\ since' = Elapse(since, TimeStep)
  /\ since' # since
  /\ UNCHANGED <<sketchVars, pc, lockerVars, commVars, securityVars, envVars,
                 currentUIState, sensorFailCount, key, btRx, bridgeOwes, emitted, unrelayed,
                 reqNo, lastReply, forcedEntry, authorizedOpening>>

\* ------------------------------------------------- the server-mode sketch
\* src/unnamed/part_007, lines 1-630: one state machine (enum State), linked
\* against the Bluetooth server of src/unnamed/part_005.  Its loop() is three
\* calls; server.pc names the call that runs next.  The display, the LED and
\* the statics that only drive them are not modelled.
ServerStates ==
  {"INIT", "IDLE_AVAILABLE", "IDLE_OCCUPIED", "AWAITING_ID", "AUTHENTICATING",
   "BORROW_AUTHORIZED", "BORROW_IN_PROGRESS", "BORROW_COMPLETING",
   "RETURN_IN_PROGRESS", "RETURN_COMPLETING", "ERROR"}

\* the states in which checkTimeouts() compares millis() - stateEntryTime
ServerTimedStates ==
  {"AWAITING_ID", "AUTHENTICATING", "BORROW_IN_PROGRESS", "BORROW_COMPLETING",
   "RETURN_IN_PROGRESS", "RETURN_COMPLETING"}

\* where the elapsed times of the sketch saturate
ServerClockCap ==
  [ stateEntryTime |-> INPUT_TIMEOUT_MS + 1,
    lastSensorRead |-> SENSOR_DEBOUNCE_MS + 1 ]

ServerElapse(clk, d) ==
  [c \in DOMAIN clk |-> Min(clk[c] + d, ServerClockCap[c])]

\* stateEntryTime is compared in the timed states only
ServerSaturate(v) ==
  IF v.currentState \in ServerTimedStates THEN v
  ELSE [v EXCEPT !.clk.stateEntryTime = ServerClockCap.stateEntryTime]

\* delay(ms)
ServerDelay(v, d) == [v EXCEPT !.clk = ServerElapse(@, d)]

\* changeState(newState)
ChangeState(v, newState) ==
  IF v.currentState # newState
  THEN [v EXCEPT !.previousState = v.currentState,
                 !.currentState = newState,
                 !.clk.stateEntryTime = 0]
  ELSE v

\* the mean of the three readings kept, as integer division computes it
Average(readings) == (readings[1] + readings[2] + readings[3]) \div 3

\* updateSensors(): the readings are averaged over the last three calls
UpdateSensors(v) ==
  LET box == [v.boxReadings EXCEPT ![v.readIndex + 1] = v.boxRaw]
      door == [v.doorReadings EXCEPT ![v.readIndex + 1] = v.doorRaw]
  IN [v EXCEPT !.boxReadings = box,
               !.doorReadings = door,
               !.readIndex = (v.readIndex + 1) % 3,
               !.boxPresent = Average(box) >= IR_BOX_THRESHOLD,
               !.doorClosed = Average(door) >= IR_DOOR_THRESHOLD]

\* keypad.getKey() of the sketch
ServerGetKey(v) == [v EXCEPT !.key = NoKey]

\* bluetooth.sendReturnNotification(lastBorrowerID), when connected and known
NotifyReturn(v) ==
  IF v.connected /\ Len(v.lastBorrowerID) > 0
  THEN [v EXCEPT !.sent = Append(@, <<"RETURN", v.lastBorrowerID>>)]
  ELSE v

ServerHandleIdleAvailable(v) ==
  IF v.key = "#"
  THEN IF v.connected
       THEN ChangeState([ServerGetKey(v) EXCEPT !.inputBuffer = EmptyString],
                        "AWAITING_ID")
       ELSE ServerDelay(ServerGetKey(v), SHORT_DELAY_MS)
  ELSE ServerGetKey(v)

ServerHandleIdleOccupied(v) ==
  IF v.key = "#"
  THEN ChangeState(ServerGetKey(v), "RETURN_IN_PROGRESS")
  ELSE ServerGetKey(v)

ServerHandleAwaitingID(v) ==
  LET k == v.key
      v0 == ServerGetKey(v)
  IN
    IF k \in Digits THEN
      IF Len(v0.inputBuffer) < MAX_STUDENT_ID_LENGTH
      THEN [v0 EXCEPT !.inputBuffer = Append(@, k)]
      ELSE v0
    ELSE IF k = "#" THEN
      IF Len(v0.inputBuffer) >= MIN_ID_LENGTH
           /\ Len(v0.inputBuffer) <= MAX_STUDENT_ID_LENGTH
      THEN ChangeState([v0 EXCEPT !.currentStudentID = v0.inputBuffer,
                                  !.authRequestSent = FALSE],
                       "AUTHENTICATING")
      ELSE [ServerDelay(v0, SHORT_DELAY_MS) EXCEPT !.inputBuffer = EmptyString]
    ELSE IF k = "*" /\ Len(v0.inputBuffer) > 0
    THEN [v0 EXCEPT !.inputBuffer = SubSeq(@, 1, Len(@) - 1)]
    ELSE IF k = "D"
    THEN ChangeState([v0 EXCEPT !.inputBuffer = EmptyString], "IDLE_AVAILABLE")
    ELSE v0

\* readResponse() of the server: nothing is read while disconnected
ServerAnswer(v) == IF v.connected THEN v.rx ELSE "NONE"

ServerHandleAuthenticating(v) ==
  IF ~v.authRequestSent /\ ~v.connected
  THEN ChangeState(
         [ServerDelay(v, LONG_DELAY_MS) EXCEPT !.authRequestSent = FALSE],
         "IDLE_AVAILABLE")
  ELSE
    LET v0 == IF ~v.authRequestSent
              THEN [v EXCEPT !.authRequestSent = TRUE,
                             !.sent = Append(@, <<"BORROW", v.currentStudentID>>)]
              ELSE v
        response == ServerAnswer(v0)
        v1 == IF v0.connected THEN [v0 EXCEPT !.rx = "NONE"] ELSE v0
    IN
      IF response = "OK"
      THEN ChangeState(
             [ServerDelay(v1, 1000) EXCEPT !.authRequestSent = FALSE],
             "BORROW_AUTHORIZED")
      ELSE IF response = "DENIED"
      THEN ChangeState(
             [ServerDelay(v1, LONG_DELAY_MS) EXCEPT !.authRequestSent = FALSE],
             "IDLE_AVAILABLE")
      ELSE v1

ServerHandleBorrowAuthorized(v) ==
  ChangeState([v EXCEPT !.locked = FALSE], "BORROW_IN_PROGRESS")

ServerHandleBorrowInProgress(v) ==
  IF ~v.doorClosed /\ ~v.boxPresent
  THEN ChangeState(v, "BORROW_COMPLETING")
  ELSE v

ServerHandleBorrowCompleting(v) ==
  IF v.doorClosed /\ ~v.boxPresent
  THEN ChangeState(
         [ServerDelay([v EXCEPT !.locked = TRUE,
                                !.lastBorrowerID = v.currentStudentID],
                      LONG_DELAY_MS)
            EXCEPT !.currentStudentID = EmptyString],
         "IDLE_OCCUPIED")
  ELSE IF ~v.doorClosed THEN v
  ELSE ChangeState(v, "BORROW_IN_PROGRESS")

\* a handler that unlocks on every call
ServerHandleReturnInProgressUnlocking(v) ==
  LET v0 == [v EXCEPT !.locked = FALSE, !.doorUnlocked = TRUE]
  IN IF ~v0.doorClosed /\ v0.boxPresent
     THEN ChangeState([v0 EXCEPT !.doorUnlocked = FALSE], "RETURN_COMPLETING")
     ELSE v0

\* doorUnlocked is the static of handleReturnInProgress()
ServerHandleReturnInProgress(v) ==
  LET v0 == IF ~v.doorUnlocked
            THEN [v EXCEPT !.locked = FALSE, !.doorUnlocked = TRUE]
            ELSE v
  IN IF ~v0.doorClosed /\ v0.boxPresent
     THEN ChangeState([v0 EXCEPT !.doorUnlocked = FALSE], "RETURN_COMPLETING")
     ELSE v0

ServerHandleReturnCompleting(v) ==
  IF v.doorClosed /\ v.boxPresent
  THEN ChangeState(
         [ServerDelay(NotifyReturn([v EXCEPT !.locked = TRUE]), LONG_DELAY_MS)
            EXCEPT !.lastBorrowerID = EmptyString],
         "IDLE_AVAILABLE")
  ELSE IF ~v.doorClosed THEN v
  ELSE ChangeState(v, "RETURN_IN_PROGRESS")

\* handleError(): ESP.restart() is not modelled, no changeState(ERROR) exists
ServerHandleError(v) == ServerGetKey(v)

\* processState()
ProcessState(v) ==
  CASE v.currentState = "INIT" -> ChangeState(v, "IDLE_AVAILABLE")
    [] v.currentState = "IDLE_AVAILABLE" -> ServerHandleIdleAvailable(v)
    [] v.currentState = "IDLE_OCCUPIED" -> ServerHandleIdleOccupied(v)
    [] v.currentState = "AWAITING_ID" -> ServerHandleAwaitingID(v)
    [] v.currentState = "AUTHENTICATING" -> ServerHandleAuthenticating(v)
    [] v.currentState = "BORROW_AUTHORIZED" -> ServerHandleBorrowAuthorized(v)
    [] v.currentState = "BORROW_IN_PROGRESS" -> ServerHandleBorrowInProgress(v)
    [] v.currentState = "BORROW_COMPLETING" -> ServerHandleBorrowCompleting(v)
    [] v.currentState = "RETURN_IN_PROGRESS" -> ServerHandleReturnInProgress(v)
    [] v.currentState = "RETURN_COMPLETING" -> ServerHandleReturnCompleting(v)
    [] v.currentState = "ERROR" -> ServerHandleError(v)

\* checkTimeouts()
CheckTimeouts(v) ==
  LET elapsed == v.clk.stateEntryTime
  IN
    CASE v.currentState = "AWAITING_ID" /\ elapsed > INPUT_TIMEOUT_MS ->
           ChangeState(
             [ServerDelay(v, SHORT_DELAY_MS) EXCEPT !.inputBuffer = EmptyString],
             "IDLE_AVAILABLE")
      [] v.currentState = "AUTHENTICATING" /\ elapsed > AUTH_TIMEOUT_MS ->
           ChangeState(
             [ServerDelay(v, SHORT_DELAY_MS) EXCEPT !.authRequestSent = FALSE],
             "IDLE_AVAILABLE")
      [] v.currentState \in {"BORROW_IN_PROGRESS", "BORROW_COMPLETING"}
           /\ elapsed > DOOR_OPEN_TIMEOUT_MS ->
           LET v0 == ServerDelay([v EXCEPT !.locked = TRUE], LONG_DELAY_MS)
           IN IF v0.boxPresent
              THEN ChangeState(v0, "IDLE_AVAILABLE")
              ELSE ChangeState(
                     [v0 EXCEPT !.lastBorrowerID = v0.currentStudentID],
                     "IDLE_OCCUPIED")
      [] v.currentState \in {"RETURN_IN_PROGRESS", "RETURN_COMPLETING"}
           /\ elapsed > DOOR_OPEN_TIMEOUT_MS ->
           LET v0 == ServerDelay([v EXCEPT !.locked = TRUE], LONG_DELAY_MS)
           IN IF v0.boxPresent
              THEN ChangeState(
                     [NotifyReturn(v0) EXCEPT !.lastBorrowerID = EmptyString],
                     "IDLE_AVAILABLE")
              ELSE ChangeState(v0, "IDLE_OCCUPIED")
      [] OTHER -> v

\* loop(): the sensors are read when the last read is old enough
ServerSensorsStep ==
  /\ server.pc = "sensors"
  /\ server' =
       [(IF server.clk.lastSensorRead > SENSOR_DEBOUNCE_MS
         THEN [UpdateSensors(server) EXCEPT !.clk.lastSensorRead = 0]
         ELSE server)
        EXCEPT !.pc = "state", !.sent = << >>]
  /\ UNCHANGED <<controllerVars, client, piLink>>

\* loop(): processState();
ServerStateStep ==
  /\ server.pc = "state"
  /\ server' = [ServerSaturate(ProcessState([server EXCEPT !.sent = << >>]))
                  EXCEPT !.pc = "timeouts"]
  /\ UNCHANGED <<controllerVars, client, piLink>>

\* loop(): checkTimeouts();
ServerTimeoutsStep ==
  /\ server.pc = "timeouts"
  /\ server' = [ServerSaturate(CheckTimeouts([server EXCEPT !.sent = << >>]))
                  EXCEPT !.pc = "sensors"]
  /\ UNCHANGED <<controllerVars, client, piLink>>

\* the keys the handler of a state of the sketch tells apart
ServerKeysRead(state) ==
  CASE state \in {"IDLE_AVAILABLE", "IDLE_OCCUPIED"} -> {"#"}
    [] state = "AWAITING_ID" -> Digits \cup {"#", "*", "D"}
    [] OTHER -> {}

\* a key is pressed just before processState() scans the keypad
ServerPressKey ==
  /\ server.pc = "state"
  /\ server.key = NoKey
  /\ \E k \in ServerKeysRead(server.currentState) :
       /\ (k \in Digits) => Len(server.inputBuffer) < MaxInputLen
       /\ server' = [server EXCEPT !.key = k]
  /\ UNCHANGED <<controllerVars, client, piLink>>

\* the user moves the door while it is unlocked, the item while it is open,
\* just before a call that reads the sensors
ServerDoorMoves ==
  /\ server.pc = "sensors"
  /\ server.clk.lastSensorRead > SENSOR_DEBOUNCE_MS
  /\ ~server.locked
  /\ \E v \in PlausibleLevels \ {server.doorRaw} :
       server' = [server EXCEPT !.doorRaw = v]
  /\ UNCHANGED <<controllerVars, client, piLink>>

ServerItemMoves ==
  /\ server.pc = "sensors"
  /\ server.clk.lastSensorRead > SENSOR_DEBOUNCE_MS
  /\ server.doorRaw < IR_DOOR_THRESHOLD
  /\ \E v \in PlausibleLevels \ {server.boxRaw} :
       server' = [server EXCEPT !.boxRaw = v]
  /\ UNCHANGED <<controllerVars, client, piLink>>

\* the bridge connects or goes away
ServerLinkChanges ==
  /\ server.pc = "state"
  /\ server' = [server EXCEPT !.connected = ~@]
  /\ UNCHANGED <<controllerVars, client, piLink>>

\* the bridge answers a request it has received
ServerBridgeReplies ==
  /\ server.pc = "state"
  /\ server.connected
  /\ server.currentState = "AUTHENTICATING"
  /\ server.authRequestSent
  /\ server.rx = "NONE"
  /\ \E r \in {"OK", "DENIED", "OTHER"} : server' = [server EXCEPT !.rx = r]
  /\ UNCHANGED <<controllerVars, client, piLink>>

\* the wall clock advances between two iterations of loop()
ServerTimePasses ==
  /\ server.pc = "sensors"
  /\ server' = [server EXCEPT !.clk = ServerElapse(@, TimeStep)]
  /\ server' # server
  /\ UNCHANGED <<controllerVars, client, piLink>>

\* the globals of the sketch as declared, before setup()
ServerBoot ==
  [ pc |-> "sensors", currentState |-> "INIT", previousState |-> "INIT",
    clk |-> ServerClockCap,
    boxPresent |-> FALSE, doorClosed |-> TRUE,
    boxReadings |-> <<0, 0, 0>>, doorReadings |-> <<0, 0, 0>>, readIndex |-> 0,
    inputBuffer |-> EmptyString, currentStudentID |-> EmptyString,
    lastBorrowerID |-> EmptyString,
    authRequestSent |-> FALSE, doorUnlocked |-> FALSE, locked |-> TRUE,
    key |-> NoKey, boxRaw |-> 3000, doorRaw |-> 3000, connected |-> FALSE,
    rx |-> "NONE", sent |-> << >> ]

\* setup() of the sketch: lock, one updateSensors(), the idle state it shows
ServerSetup(box, door) ==
  LET v0 == UpdateSensors([ServerBoot EXCEPT !.boxRaw = box, !.doorRaw = door])
  IN ServerSaturate(
       ChangeState(v0, IF v0.boxPresent THEN "IDLE_AVAILABLE"
                       ELSE "IDLE_OCCUPIED"))

\* ------------------------------------------------- the client-mode sketch
\* src/unnamed/part_007, lines 632-1318: the four machines again, linked
\* against the Bluetooth client of src/SmartLocker_TTGO/bt_comm.cpp (lines
\* 51-149).  client.pc names the call of its loop() that runs next.  The
\* display and the LEDs are not modelled.
ClientPhases == <<"connection", "security", "locker", "comm", "emergency">>

ClientNextPhase(p) ==
  CASE p = "connection" -> "security"
    [] p = "security" -> "locker"
    [] p = "locker" -> "comm"
    [] p = "comm" -> "emergency"
    [] p = "emergency" -> "connection"

\* where the elapsed times of the sketch saturate
ClientClockCap ==
  [ stateEntryTime |-> DOOR_OPEN_TIMEOUT_MS + 1,
    lastSensorCheck |-> SENSOR_DEBOUNCE_MS,
    inputStartTime |-> INPUT_TIMEOUT_MS + 1,
    authStartTime |-> AUTH_TIMEOUT_MS + 1,
    doorDebounceTime |-> SENSOR_DEBOUNCE_MS + 1,
    boxDebounceTime |-> SENSOR_DEBOUNCE_MS + 1,
    lastStatusCheck |-> STATUS_CHECK_MS + 1,
    lastConnectionAttempt |-> BT_RECONNECT_INTERVAL_MS + 1,
    btLastConnectAttempt |-> BT_CONNECT_SPACING_MS,
    lastFlash |-> ERROR_FLASH_PERIOD_MS + 1 ]

ClientElapse(clk, d) ==
  [n \in DOMAIN clk |-> Min(clk[n] + d, ClientClockCap[n])]

\* the states in which a stamp is compared with millis()
ClientStampRead(n, c) ==
  CASE n = "stateEntryTime" ->
         c.currentLockerState \in {"BORROW_IN_PROGRESS", "RETURN_IN_PROGRESS"}
    [] n = "inputStartTime" -> c.currentLockerState = "AWAITING_ID"
    [] n = "authStartTime" ->
         \/ c.currentLockerState = "AUTHENTICATING"
         \/ c.currentCommState \in {"CONNECTING", "WAITING_RESPONSE"}
    [] n = "lastFlash" -> c.currentLockerState = "ERROR_STATE"
    [] OTHER -> TRUE

\* a stamp that is not compared is kept at its cap
ClientSaturate(c) ==
  [c EXCEPT !.clk = [n \in DOMAIN c.clk |->
                       IF ClientStampRead(n, c) THEN c.clk[n]
                       ELSE ClientClockCap[n]]]

\* x = millis()
ClientStamp(c, n) == [c EXCEPT !.clk[n] = 0]

\* delay(ms)
ClientDelay(c, d) == [c EXCEPT !.clk = ClientElapse(@, d)]

\* keypad.getKey() of the sketch; entries, not a variable of the sketch,
\* counts the entries of an identifier started so far
ClientGetKey(c) == [c EXCEPT !.key = NoKey]

\* LockerBluetooth::isConnected() of the client: its value, and the flag it
\* clears when the socket is down
ClientLinked(c) == c.btConnected /\ c.linkUp

ClientNoteLink(c) == IF c.linkUp THEN c ELSE [c EXCEPT !.btConnected = FALSE]

\* LockerBluetooth::connect(); it returns the btConnected it leaves
ClientConnect(c) ==
  IF c.clk.btLastConnectAttempt < BT_CONNECT_SPACING_MS
  THEN c
  ELSE LET c0 == ClientStamp(c, "btLastConnectAttempt")
       IN IF c0.btConnected
          THEN c0
          ELSE [c0 EXCEPT !.btConnected = c0.reachable,
                          !.linkUp = c0.reachable]

\* LockerBluetooth::sendCode(code); frame is <<prefix, identifier>>
ClientSendCode(c, frame) ==
  IF ClientLinked(c)
  THEN [c EXCEPT !.sent = Append(@, frame)]
  ELSE [c EXCEPT !.btConnected = FALSE]

\* LockerBluetooth::readResponse(): the line read, "NONE" for none
ClientAnswer(c) == IF ClientLinked(c) THEN c.rx ELSE "NONE"

\* maintainConnection()
MaintainConnection(c) ==
  LET c1 == IF c.clk.lastStatusCheck > STATUS_CHECK_MS
            THEN [ClientNoteLink(ClientStamp(c, "lastStatusCheck"))
                  EXCEPT !.isNetworkAvailable = ClientLinked(c)]
            ELSE c
  IN IF /\ ~c1.isNetworkAvailable
        /\ c1.currentCommState = "IDLE"
        /\ c1.clk.lastConnectionAttempt > BT_RECONNECT_INTERVAL_MS
     THEN LET c2 == ClientConnect(c1)
          IN ClientStamp(
               [c2 EXCEPT !.isNetworkAvailable = c2.btConnected],
               "lastConnectionAttempt")
     ELSE c1

\* updateSecurityState() of the sketch
ClientUpdateSecurityState(c) ==
  IF c.clk.lastSensorCheck < SENSOR_DEBOUNCE_MS
  THEN c
  ELSE
    LET c0 == ClientStamp(c, "lastSensorCheck")
        doorClosed == IsTriggered(c.doorRaw, IR_DOOR_THRESHOLD)
        boxPresent == IsTriggered(c.boxRaw, IR_BOX_THRESHOLD)
        doorTaken == doorClosed # c0.lastDoorState
                       /\ c0.clk.doorDebounceTime > SENSOR_DEBOUNCE_MS
        c1 == IF doorTaken
              THEN ClientStamp([c0 EXCEPT !.lastDoorState = doorClosed],
                               "doorDebounceTime")
              ELSE c0
        boxTaken == boxPresent # c1.lastBoxState
                      /\ c1.clk.boxDebounceTime > SENSOR_DEBOUNCE_MS
        c2 == IF boxTaken
              THEN ClientStamp([c1 EXCEPT !.lastBoxState = boxPresent],
                               "boxDebounceTime")
              ELSE c1
    IN IF doorClosed # c0.lastDoorState /\ ~doorTaken THEN c0
       ELSE IF boxPresent # c1.lastBoxState /\ ~boxTaken THEN c1
       ELSE [c2 EXCEPT !.currentSecurityState =
                         Composite(doorClosed, boxPresent)]

\* requestAuthorization(studentID) of the sketch
ClientRequestAuthorization(c) ==
  LET c0 == ClientStamp([c EXCEPT !.authorizationPending = TRUE],
                        "authStartTime")
  IN IF ~ClientLinked(c0)
     THEN LET c1 == ClientConnect(ClientNoteLink(c0))
          IN IF c1.btConnected
             THEN [c1 EXCEPT !.isNetworkAvailable = TRUE,
                             !.currentCommState = "SENDING_AUTH"]
             ELSE [c1 EXCEPT !.currentCommState = "ERROR"]
     ELSE [c0 EXCEPT !.currentCommState = "SENDING_AUTH"]

ClientHandleIdleAvailable(c) ==
  IF c.key = "#"
  THEN ClientStamp(
         [ClientGetKey(c) EXCEPT !.currentLockerState = "AWAITING_ID",
                                 !.inputBuffer = EmptyString,
                                 !.entries = Min(@ + 1, MaxVisitRequests)],
         "inputStartTime")
  ELSE ClientGetKey(c)

\* the frame "RETURN," + lastBorrowerID is sent here, when the return starts
ClientHandleIdleOccupied(c) ==
  IF c.key = "#"
  THEN LET c0 == ClientStamp(
                   [ClientGetKey(c) EXCEPT
                      !.currentLockerState = "RETURN_IN_PROGRESS",
                      !.locked = FALSE],
                   "stateEntryTime")
       IN IF c0.isNetworkAvailable /\ c0.lastBorrowerID # EmptyString
          THEN ClientSendCode(c0, <<"RETURN,", c0.lastBorrowerID>>)
          ELSE c0
  ELSE ClientGetKey(c)

ClientHandleAwaitingID(c) ==
  IF c.clk.inputStartTime > INPUT_TIMEOUT_MS
  THEN [ClientDelay(c, SHORT_DELAY_MS) EXCEPT
          !.currentLockerState = "IDLE_AVAILABLE"]
  ELSE
    LET k == c.key
        c0 == ClientGetKey(c)
    IN
      IF k \in Digits
      THEN [c0 EXCEPT !.inputBuffer = Append(@, k)]
      ELSE IF k = "#" THEN
        IF Len(c0.inputBuffer) >= MIN_ID_LENGTH
             /\ Len(c0.inputBuffer) <= MAX_STUDENT_ID_LENGTH
        THEN ClientRequestAuthorization(
               [c0 EXCEPT !.currentStudentID = c0.inputBuffer,
                          !.currentLockerState = "AUTHENTICATING"])
        ELSE [ClientDelay(c0, SHORT_DELAY_MS) EXCEPT
                !.inputBuffer = EmptyString]
      ELSE IF k = "*" /\ Len(c0.inputBuffer) > 0
      THEN [c0 EXCEPT !.inputBuffer = SubSeq(@, 1, Len(@) - 1)]
      ELSE c0

ClientHandleAuthenticating(c) ==
  LET c0 == IF ~c.authorizationPending
            THEN IF c.authorizationResult
                 THEN [c EXCEPT !.currentLockerState = "BORROW_AUTHORIZED"]
                 ELSE [ClientDelay(c, LONG_DELAY_MS) EXCEPT
                         !.currentLockerState = "IDLE_AVAILABLE"]
            ELSE c
  IN IF c0.clk.authStartTime > AUTH_TIMEOUT_MS
     THEN [ClientDelay(c0, LONG_DELAY_MS) EXCEPT
             !.authorizationPending = FALSE,
             !.currentLockerState = "IDLE_AVAILABLE"]
     ELSE c0

ClientHandleBorrowAuthorized(c) ==
  ClientStamp([c EXCEPT !.locked = FALSE,
                        !.currentLockerState = "BORROW_IN_PROGRESS"],
              "stateEntryTime")

\* the timeout of the two states that wait with the door released
ClientDoorOpenTimeout(c, idle) ==
  IF c.clk.stateEntryTime > DOOR_OPEN_TIMEOUT_MS
  THEN [ClientDelay([c EXCEPT !.locked = TRUE], SHORT_DELAY_MS) EXCEPT
          !.currentLockerState = idle]
  ELSE c

ClientHandleBorrowInProgress(c) ==
  ClientDoorOpenTimeout(
    IF c.currentSecurityState = "DOOR_OPEN_BOX_ABSENT"
    THEN [c EXCEPT !.currentLockerState = "BORROW_COMPLETING"]
    ELSE c,
    "IDLE_AVAILABLE")

ClientHandleBorrowCompleting(c) ==
  LET c0 == IF c.currentSecurityState = "DOOR_CLOSED_BOX_ABSENT"
            THEN [ClientDelay([c EXCEPT !.locked = TRUE,
                                        !.lastBorrowerID = c.currentStudentID],
                              LONG_DELAY_MS)
                  EXCEPT !.currentLockerState = "IDLE_OCCUPIED"]
            ELSE c
  IN IF c0.currentSecurityState = "DOOR_CLOSED_BOX_PRESENT"
     THEN [ClientDelay([c0 EXCEPT !.locked = TRUE], SHORT_DELAY_MS) EXCEPT
             !.currentLockerState = "IDLE_AVAILABLE"]
     ELSE c0

ClientHandleReturnInProgress(c) ==
  ClientDoorOpenTimeout(
    IF c.currentSecurityState = "DOOR_OPEN_BOX_PRESENT"
    THEN [c EXCEPT !.currentLockerState = "RETURN_COMPLETING"]
    ELSE c,
    "IDLE_OCCUPIED")

ClientHandleReturnCompleting(c) ==
  LET c0 == IF c.currentSecurityState = "DOOR_CLOSED_BOX_PRESENT"
            THEN [ClientDelay([c EXCEPT !.locked = TRUE,
                                        !.lastBorrowerID = EmptyString],
                              LONG_DELAY_MS)
                  EXCEPT !.currentLockerState = "IDLE_AVAILABLE"]
            ELSE c
  IN IF c0.currentSecurityState = "DOOR_CLOSED_BOX_ABSENT"
     THEN [ClientDelay([c0 EXCEPT !.locked = TRUE], SHORT_DELAY_MS) EXCEPT
             !.currentLockerState = "IDLE_OCCUPIED"]
     ELSE c0

ClientHandleErrorState(c) ==
  LET c0 == IF c.clk.lastFlash > ERROR_FLASH_PERIOD_MS
            THEN ClientStamp(ClientDelay(c, ERROR_FLASH_ON_MS), "lastFlash")
            ELSE c
  IN IF c0.key = "D"
     THEN [ClientGetKey(c0) EXCEPT !.currentLockerState = "MAINTENANCE"]
     ELSE ClientGetKey(c0)

ClientHandleMaintenance(c) ==
  LET k == c.key
      c0 == ClientGetKey(c)
  IN CASE k = "A" -> [c0 EXCEPT !.locked = FALSE]
       [] k = "B" -> [c0 EXCEPT !.locked = TRUE]
       [] k = "D" ->
            [ClientUpdateSecurityState(c0) EXCEPT
               !.currentLockerState =
                  IF IsTriggered(c0.boxRaw, IR_BOX_THRESHOLD)
                  THEN "IDLE_AVAILABLE" ELSE "IDLE_OCCUPIED"]
       [] OTHER -> c0

\* processLockerStateMachine() of the sketch
ClientProcessLocker(c) ==
  CASE c.currentLockerState = "IDLE_AVAILABLE" -> ClientHandleIdleAvailable(c)
    [] c.currentLockerState = "IDLE_OCCUPIED" -> ClientHandleIdleOccupied(c)
    [] c.currentLockerState = "AWAITING_ID" -> ClientHandleAwaitingID(c)
    [] c.currentLockerState = "AUTHENTICATING" -> ClientHandleAuthenticating(c)
    [] c.currentLockerState = "BORROW_AUTHORIZED" ->
         ClientHandleBorrowAuthorized(c)
    [] c.currentLockerState = "BORROW_IN_PROGRESS" ->
         ClientHandleBorrowInProgress(c)
    [] c.currentLockerState = "BORROW_COMPLETING" ->
         ClientHandleBorrowCompleting(c)
    [] c.currentLockerState = "RETURN_IN_PROGRESS" ->
         ClientHandleReturnInProgress(c)
    [] c.currentLockerState = "RETURN_COMPLETING" ->
         ClientHandleReturnCompleting(c)
    [] c.currentLockerState = "ERROR_STATE" -> ClientHandleErrorState(c)
    [] c.currentLockerState = "MAINTENANCE" -> ClientHandleMaintenance(c)

\* processCommStateMachine() of the sketch
ClientProcessComm(c) ==
  CASE c.currentCommState = "IDLE" -> c
    [] c.currentCommState = "CONNECTING" ->
         IF ClientLinked(c)
         THEN [c EXCEPT !.currentCommState = "SENDING_AUTH"]
         ELSE IF c.clk.authStartTime > BT_CONNECT_TIMEOUT_MS
         THEN [ClientNoteLink(c) EXCEPT !.currentCommState = "ERROR",
                                        !.isNetworkAvailable = FALSE]
         ELSE ClientNoteLink(c)
    [] c.currentCommState = "SENDING_AUTH" ->
         IF ClientLinked(c)
         THEN ClientStamp(
                [ClientSendCode(c, <<"", c.currentStudentID>>) EXCEPT
                   !.currentCommState = "WAITING_RESPONSE"],
                "authStartTime")
         ELSE [ClientSendCode(c, <<"", c.currentStudentID>>) EXCEPT
                 !.currentCommState = "ERROR"]
    [] c.currentCommState = "WAITING_RESPONSE" ->
         LET response == ClientAnswer(c)
             c0 == IF ClientLinked(c) THEN [c EXCEPT !.rx = "NONE"]
                   ELSE [c EXCEPT !.btConnected = FALSE]
         IN IF response # "NONE"
            THEN [c0 EXCEPT !.authorizationResult = (response = "OK"),
                            !.authorizationPending = FALSE,
                            !.currentCommState = "IDLE"]
            ELSE IF c0.clk.authStartTime > AUTH_TIMEOUT_MS
            THEN [c0 EXCEPT !.currentCommState = "ERROR",
                            !.authorizationPending = FALSE,
                            !.authorizationResult = FALSE]
            ELSE c0
    [] c.currentCommState = "PROCESSING_RESPONSE" ->
         [c EXCEPT !.currentCommState = "IDLE"]
    [] c.currentCommState = "OFFLINE_MODE" ->
         [c EXCEPT !.authorizationPending = FALSE,
                   !.authorizationResult = FALSE,
                   !.currentCommState = "IDLE"]
    [] c.currentCommState = "ERROR" ->
         [c EXCEPT !.isNetworkAvailable = FALSE,
                   !.authorizationPending = FALSE,
                   !.authorizationResult = FALSE,
                   !.currentCommState = "IDLE"]

\* handleEmergencyConditions() of the sketch: the sensor-failure count
ClientHandleEmergency(c) ==
  IF c.doorRaw < RAW_IMPLAUSIBLE_BELOW \/ c.boxRaw < RAW_IMPLAUSIBLE_BELOW
  THEN LET n == Min(c.sensorFailCount + 1, SENSOR_FAIL_LIMIT + 1)
       IN IF n > SENSOR_FAIL_LIMIT
          THEN [c EXCEPT !.sensorFailCount = n,
                         !.currentLockerState = "ERROR_STATE"]
          ELSE [c EXCEPT !.sensorFailCount = n]
  ELSE [c EXCEPT !.sensorFailCount = 0]

\* one call of loop() of the sketch
ClientCall(c) ==
  CASE c.pc = "connection" -> MaintainConnection(c)
    [] c.pc = "security" -> ClientUpdateSecurityState(c)
    [] c.pc = "locker" -> ClientProcessLocker(c)
    [] c.pc = "comm" -> ClientProcessComm(c)
    [] c.pc = "emergency" -> ClientHandleEmergency(c)

\* loop() of the sketch, call by call; client.sent holds the frames of the
\* latest call
ClientStep ==
  /\ client' = [ClientSaturate(ClientCall([client EXCEPT !.sent = << >>]))
                  EXCEPT !.pc = ClientNextPhase(client.pc)]
  /\ UNCHANGED <<controllerVars, server, piLink>>

\* the keys the user of the sketch presses: '#' to start, digits and '#' to
\* enter an identifier
ClientKeysRead(state) ==
  CASE state \in IdleStates -> {"#"}
    [] state = "AWAITING_ID" -> Digits \cup {"#"}
    [] OTHER -> {}

\* a key is pressed just before the handler that scans the keypad; at most
\* MaxVisitRequests entries of an identifier are started, each of them ended
\* in time and with an identifier of the least valid length
ClientPressKey ==
  /\ client.pc = "locker"
  /\ client.key = NoKey
  /\ \E k \in ClientKeysRead(client.currentLockerState) :
       /\ (k \in Digits) => Len(client.inputBuffer) < MaxInputLen
       /\ (k = "#" /\ client.currentLockerState = "IDLE_AVAILABLE")
            => client.entries < MaxVisitRequests
       /\ (k = "#" /\ client.currentLockerState = "AWAITING_ID")
            => Len(client.inputBuffer) >= MIN_ID_LENGTH
       /\ client.currentLockerState = "AWAITING_ID"
            => client.clk.inputStartTime <= INPUT_TIMEOUT_MS
       /\ client' = [client EXCEPT !.key = k]
  /\ UNCHANGED <<controllerVars, server, piLink>>

\* the user moves the door while it is released, the item while it is open,
\* just before a call that reads the sensors
ClientDoorMoves ==
  /\ client.pc = "security"
  /\ client.clk.lastSensorCheck >= SENSOR_DEBOUNCE_MS
  /\ IsTriggered(client.doorRaw, IR_DOOR_THRESHOLD) => ~client.locked
  /\ \E v \in PlausibleLevels \ {client.doorRaw} :
       client' = [client EXCEPT !.doorRaw = v]
  /\ UNCHANGED <<controllerVars, server, piLink>>

ClientItemMoves ==
  /\ client.pc = "security"
  /\ client.clk.lastSensorCheck >= SENSOR_DEBOUNCE_MS
  /\ ~IsTriggered(client.doorRaw, IR_DOOR_THRESHOLD)
  /\ \E v \in PlausibleLevels \ {client.boxRaw} :
       client' = [client EXCEPT !.boxRaw = v]
  /\ UNCHANGED <<controllerVars, server, piLink>>

\* the bridge starts or stops listening; a socket to a bridge that stopped
\* is down
ClientLinkChanges ==
  /\ client.pc = "connection"
  /\ client' = [client EXCEPT !.reachable = ~@,
                              !.linkUp = @ /\ ~client.reachable,
                              !.rx = "NONE"]
  /\ UNCHANGED <<controllerVars, server, piLink>>

\* the bridge answers the identifier it has received
ClientBridgeReplies ==
  /\ client.pc = "comm"
  /\ client.linkUp
  /\ client.currentCommState = "WAITING_RESPONSE"
  /\ client.rx = "NONE"
  /\ \E r \in {"OK", "DENIED", "OTHER"} : client' = [client EXCEPT !.rx = r]
  /\ UNCHANGED <<controllerVars, server, piLink>>

\* the wall clock advances between two iterations of loop()
ClientTimePasses ==
  /\ client.pc = "connection"
  /\ client' = ClientSaturate([client EXCEPT !.clk = ClientElapse(@, TimeStep)])
  /\ client' # client
  /\ UNCHANGED <<controllerVars, server, piLink>>

\* the globals of the sketch as declared, setup() having waited BOOT_DELAY_MS
ClientBoot ==
  [ pc |-> "connection",
    currentLockerState |-> "IDLE_AVAILABLE", currentCommState |-> "IDLE",
    currentSecurityState |-> "DOOR_CLOSED_BOX_PRESENT",
    lastDoorState |-> FALSE, lastBoxState |-> FALSE,
    clk |-> [n \in DOMAIN ClientClockCap |->
               Min(BOOT_DELAY_MS, ClientClockCap[n])],
    currentStudentID |-> EmptyString, inputBuffer |-> EmptyString,
    lastBorrowerID |-> EmptyString,
    isNetworkAvailable |-> FALSE, authorizationPending |-> FALSE,
    authorizationResult |-> FALSE, sensorFailCount |-> 0,
    locked |-> TRUE, key |-> NoKey, boxRaw |-> 3000, doorRaw |-> 3000,
    reachable |-> FALSE, linkUp |-> FALSE, btConnected |-> FALSE,
    rx |-> "NONE", sent |-> << >>, entries |-> 0 ]

\* setup() of the sketch: lock, one updateSecurityState(), the idle state for
\* the item, one connect()
ClientSetup(box, door) ==
  LET c0 == ClientUpdateSecurityState(
              [ClientBoot EXCEPT !.boxRaw = box, !.doorRaw = door])
      c1 == ClientConnect(
              [c0 EXCEPT !.currentLockerState =
                           IF IsTriggered(box, IR_BOX_THRESHOLD)
                           THEN "IDLE_AVAILABLE" ELSE "IDLE_OCCUPIED"])
  IN ClientSaturate(
       ClientStamp([c1 EXCEPT !.isNetworkAvailable = c1.btConnected],
                   "lastConnectionAttempt"))

\* ===================================================================
\* The Bluetooth adapter of part_005 (LockerBluetooth, SPP server for the
\* Pi).  piLink holds its member _clientConnected, the state of the SPP
\* connection, the bytes of its stream and what its latest readResponse()
\* did.
\* ===================================================================
NewLine == "\n"

\* lines the Pi may write (without the terminating newline)
PiLines ==
  { <<"o", "k">>, <<" ", "G", "r", "a", "n", "t", "e", "d", " ">>,
    <<"n", "o">>, <<"o", "k", "a", "y">>, <<"?">>, <<" ">> }

\* LockerBluetooth::isConnected()
PiIsConnected(b) == b.clientConnected /\ b.sppUp

\* the index of the first terminator in bytes, 0 when there is none
RECURSIVE FirstNewLine(_, _)
FirstNewLine(bytes, i) ==
  IF i > Len(bytes) THEN 0
  ELSE IF bytes[i] = NewLine THEN i
  ELSE FirstNewLine(bytes, i + 1)

\* Stream::readStringUntil('\n') on the bytes that are in the stream or
\* reach it before a read times out: the bytes up to the terminator, which
\* is consumed too; without a terminator, every byte, when the read times out
ReadStringUntil(bytes) ==
  LET i == FirstNewLine(bytes, 1)
  IN IF i = 0
     THEN [msg |-> bytes, rest |-> << >>, terminated |-> FALSE]
     ELSE [msg |-> SubSeq(bytes, 1, i - 1),
           rest |-> SubSeq(bytes, i + 1, Len(bytes)),
           terminated |-> TRUE]

\* readResponse(): the normalization of a trimmed, upper-cased message
NormalizeResponse(msg) ==
  IF msg \in { <<"O", "K">>, <<"G", "R", "A", "N", "T", "E", "D">>,
               <<"S", "U", "C", "C", "E", "S", "S">> }
  THEN OK
  ELSE IF msg \in { DENIED, <<"N", "O">>, <<"F", "A", "I", "L">>,
                    <<"E", "R", "R", "O", "R">> }
  THEN DENIED
  ELSE msg

\* LockerBluetooth::readResponse() when late more bytes reach the stream
\* while readStringUntil waits; returned is its return value, linked, whole
\* and taken record what the call saw: isConnected(), a terminator, and the
\* bytes before it
PiReadResponse(b, late) ==
  LET idle == [b EXCEPT !.returned = EmptyString, !.linked = PiIsConnected(b),
                        !.whole = FALSE, !.taken = EmptyString]
  IN
    IF ~PiIsConnected(b) THEN idle
    ELSE IF b.rx = << >> THEN idle
    ELSE
      LET r == ReadStringUntil(b.rx \o SubSeq(b.wire, 1, late))
          msg == Trim(r.msg)
          arrived == [idle EXCEPT !.rx = r.rest,
                                  !.wire = SubSeq(@, late + 1, Len(@)),
                                  !.whole = r.terminated,
                                  !.taken = r.msg]
      IN IF Len(msg) > 0
         THEN [arrived EXCEPT
                 !.returned = NormalizeResponse(ToUpperCase(msg))]
         ELSE arrived

\* loop of the sketch that owns the adapter: bluetooth.readResponse()
PiReads ==
  /\ \E late \in 0..Len(piLink.wire) : piLink' = PiReadResponse(piLink, late)
  /\ UNCHANGED <<controllerVars, server, client>>

\* btCallback: ESP_SPP_SRV_OPEN_EVT
PiConnects ==
  /\ ~piLink.sppUp
  /\ piLink' = [piLink EXCEPT !.clientConnected = TRUE, !.sppUp = TRUE]
  /\ UNCHANGED <<controllerVars, server, client>>

\* btCallback: ESP_SPP_CLOSE_EVT; what was on its way is lost
PiDisconnects ==
  /\ piLink.sppUp
  /\ piLink' = [piLink EXCEPT !.clientConnected = FALSE, !.sppUp = FALSE,
                              !.wire = << >>]
  /\ UNCHANGED <<controllerVars, server, client>>

\* the Pi writes a line and its terminator, one line at a time
PiWrites ==
  /\ piLink.sppUp
  /\ piLink.wire = << >>
  /\ piLink.rx = << >>
  /\ \E line \in PiLines :
       piLink' = [piLink EXCEPT !.wire = Append(line, NewLine)]
  /\ UNCHANGED <<controllerVars, server, client>>

\* some of the bytes on their way reach the stream
PiBytesArrive ==
  /\ \E n \in 1..Len(piLink.wire) :
       piLink' = [piLink EXCEPT !.rx = @ \o SubSeq(piLink.wire, 1, n),
                                !.wire = SubSeq(@, n + 1, Len(@))]
  /\ UNCHANGED <<controllerVars, server, client>>

\* the adapter after its constructor and begin()
PiBegin ==
  [ clientConnected |-> FALSE, sppUp |-> FALSE, rx |-> << >>, wire |-> << >>,
    returned |-> EmptyString, linked |-> FALSE, whole |-> FALSE,
    taken |-> EmptyString ]

\* ------------------------------------------------------------------- setup
\* the clocks when setup() calls updateSecurityState(): no stamp written yet
BootClocks ==
  [c \in DOMAIN ClockCap |-> Min(BOOT_DELAY_MS, ClockCap[c])]

\* the state setup() leaves, for the readings door and box
\* the four-machine controller after setup(), the sensors reading door, box
ControllerSetup(door, box) ==
    LET doorClosed == IsTriggered(door, IR_DOOR_THRESHOLD)
        boxPresent == IsTriggered(box, IR_BOX_THRESHOLD)
        c1 == Stamp(BootClocks, "lastSensorCheck")
        c2 == IF doorClosed THEN Stamp(c1, "doorDebounceTime") ELSE c1
        c3 == IF boxPresent THEN Stamp(c2, "boxDebounceTime") ELSE c2
    IN
      /\ doorRaw = door
      /\ boxRaw = box
      /\ since = Saturate(c3, "IDLE_AVAILABLE", "IDLE")
      /\ lastDoorState = doorClosed
      /\ lastBoxState = boxPresent
      /\ currentSecurityState = Composite(doorClosed, boxPresent)
      /\ currentLockerState =
           IF boxPresent THEN "IDLE_AVAILABLE" ELSE "IDLE_OCCUPIED"
      /\ pc = "security"
      /\ currentCommState = "IDLE"
      /\ currentUIState = "DISPLAY_STATUS"
      /\ currentStudentID = EmptyString
      /\ inputBuffer = EmptyString
      /\ lastBorrowerID = EmptyString
      /\ isNetworkAvailable = TRUE
      /\ authorizationPending = FALSE
      /\ authorizationResult = FALSE
      /\ sensorFailCount = 0
      /\ doorLocked = TRUE
      /\ greenLed = TRUE
      /\ redLed = FALSE
      /\ key = NoKey
      /\ btHasClient = FALSE
      /\ btRx = << >>
      /\ bridgeOwes = {}
      /\ emitted = << >>
      /\ unrelayed = FALSE
      /\ reqNo = 0
      /\ lastReply = NoReply
      /\ forcedEntry = "none"
      /\ authorizedOpening = FALSE

\* the level both sensors read with the door closed on the item
RestLevel ==
  CHOOSE v \in PlausibleLevels :
    IsTriggered(v, IR_DOOR_THRESHOLD) /\ IsTriggered(v, IR_BOX_THRESHOLD)

\* The three programs run on boards of their own. A run of the controller
\* starts at any plausible sensor levels, the two sketches booted at rest;
\* a run of a sketch starts at any plausible levels of its own sensors, the
\* controller booted at rest.
Init ==
  /\ \E door \in PlausibleLevels, box \in PlausibleLevels :
       ControllerSetup(door, box)
  /\ server = ServerSetup(RestLevel, RestLevel)
  /\ client = ClientSetup(RestLevel, RestLevel)
  /\ piLink = PiBegin

InitSketch ==
  /\ ControllerSetup(RestLevel, RestLevel)
  /\ \E door \in PlausibleLevels, box \in PlausibleLevels :
       /\ server = ServerSetup(box, door)
       /\ client = ClientSetup(box, door)
  /\ piLink = PiBegin

\* the authorization exchange: the keypad, the link and the bridge move, the
\* sensors read what they read at boot
Next ==
  \/ SecurityStep
  \/ LockerStep
  \/ CommStep
  \/ UIStep
  \/ EmergencyStep
  \/ PressKey
  \/ LinkChanges
  \/ BridgeReplies
  \/ TimePasses

Spec == Init /\ [][Next]_vars

\* a visit: one identifier, and a door that is opened only when released
NextVisit ==
  \/ SecurityStep
  \/ LockerStep
  \/ CommStep
  \/ UIStep
  \/ EmergencyStep
  \/ PressKeyOnVisit
  \/ DoorMoves
  \/ ItemMoves
  \/ LinkChanges
  \/ BridgeReplies
  \/ TimePasses

SpecVisit == Init /\ [][NextVisit]_vars

\* the door: the sensors move freely, no identifier is entered
NextDoor ==
  \/ SecurityStep
  \/ LockerStep
  \/ CommStep
  \/ UIStep
  \/ EmergencyStep
  \/ PressFunctionKey
  \/ DoorChanges
  \/ BoxChanges
  \/ LinkChanges
  \/ TimePasses

SpecDoor == Init /\ [][NextDoor]_vars

\* sensor faults: the sensors read any level, no identifier is entered
NextFault ==
  \/ SecurityStep
  \/ LockerStep
  \/ CommStep
  \/ UIStep
  \/ EmergencyStep
  \/ PressServiceKey
  \/ DoorSensorReads
  \/ BoxSensorReads
  \/ TimePasses

SpecFault == Init /\ [][NextFault]_vars

\* the keypad alone: sensors at rest, no bridge
NextKeypad ==
  \/ SecurityStep
  \/ LockerStep
  \/ CommStep
  \/ UIStep
  \/ EmergencyStep
  \/ PressLongID
  \/ TimePasses

SpecKeypad == Init /\ [][NextKeypad]_vars

\* a return at the door, no identifier entered and no bridge
NextReturn ==
  \/ SecurityStep
  \/ LockerStep
  \/ CommStep
  \/ UIStep
  \/ EmergencyStep
  \/ PressFunctionKey
  \/ DoorMoves
  \/ ItemMoves
  \/ TimePasses

\* loop() keeps being called and the wall clock keeps advancing
FairReturn ==
  /\ Init
  /\ [][NextReturn]_vars
  /\ WF_vars(SecurityStep)
  /\ WF_vars(LockerStep)
  /\ WF_vars(CommStep)
  /\ WF_vars(UIStep)
  /\ WF_vars(EmergencyStep)
  /\ SF_vars(TimePasses)

\* sensor levels at rest, single samples that differ from them
NextGlitch ==
  \/ SecurityStep
  \/ LockerStep
  \/ CommStep
  \/ UIStep
  \/ EmergencyStep
  \/ PressFunctionKey
  \/ SensorGlitch
  \/ TimePasses

SpecGlitch == Init /\ [][NextGlitch]_vars

\* the link alone: one identifier is entered, the bridge comes and goes
NextLink ==
  \/ SecurityStep
  \/ LockerStep
  \/ CommStep
  \/ UIStep
  \/ EmergencyStep
  \/ PressKeyOnVisit
  \/ LinkChanges
  \/ TimePasses

\* loop() keeps being called and the wall clock keeps advancing
FairLink ==
  /\ Init
  /\ [][NextLink]_vars
  /\ WF_vars(SecurityStep)
  /\ WF_vars(LockerStep)
  /\ WF_vars(CommStep)
  /\ WF_vars(UIStep)
  /\ WF_vars(EmergencyStep)
  /\ SF_vars(TimePasses)

\* one exchange with a bridge that comes and goes and may answer
NextExchange ==
  \/ SecurityStep
  \/ LockerStep
  \/ CommStep
  \/ UIStep
  \/ EmergencyStep
  \/ PressKeyOnVisit
  \/ LinkChanges
  \/ BridgeReplies
  \/ TimePasses

\* loop() is called again and again: weak fairness of the five calls, one
\* of which is enabled in every state and which alone change pc
LoopRuns == []<><<pc' # pc>>_vars

\* loop() keeps being called and the wall clock keeps advancing
FairExchange ==
  /\ Init
  /\ [][NextExchange]_vars
  /\ LoopRuns
  /\ SF_vars(TimePasses)

\* the client-mode sketch with its keypad, door, item and bridge
NextClient ==
  \/ ClientStep
  \/ ClientPressKey
  \/ ClientDoorMoves
  \/ ClientItemMoves
  \/ ClientLinkChanges
  \/ ClientBridgeReplies
  \/ ClientTimePasses

SpecClient == InitSketch /\ [][NextClient]_vars

\* the server-mode sketch: one identifier, the door used as meant
NextServer ==
  \/ ServerSensorsStep
  \/ ServerStateStep
  \/ ServerTimeoutsStep
  \/ ServerPressKey
  \/ ServerDoorMoves
  \/ ServerItemMoves
  \/ ServerLinkChanges
  \/ ServerBridgeReplies
  \/ ServerTimePasses

SpecServer == InitSketch /\ [][NextServer]_vars

\* the adapter of part_005 alone, the three programs at rest
InitAdapter ==
  /\ ControllerSetup(RestLevel, RestLevel)
  /\ server = ServerSetup(RestLevel, RestLevel)
  /\ client = ClientSetup(RestLevel, RestLevel)
  /\ piLink = PiBegin

NextAdapter ==
  \/ PiReads
  \/ PiConnects
  \/ PiDisconnects
  \/ PiWrites
  \/ PiBytesArrive

SpecAdapter == InitAdapter /\ [][NextAdapter]_vars

TypeOK ==
  /\ pc \in {"security", "locker", "comm", "ui", "emergency"}
  /\ currentLockerState \in LockerStates
  /\ currentCommState \in CommStates
  /\ currentSecurityState \in SecurityStates
  /\ reqNo \in 0..MaxRequests
  /\ Len(emitted) <= 1
  /\ authorizedOpening \in BOOLEAN
  /\ server.pc \in {"sensors", "state", "timeouts"}
  /\ server.currentState \in ServerStates
  /\ server.readIndex \in 0..2
  /\ Len(server.inputBuffer) <= MAX_STUDENT_ID_LENGTH
  /\ Len(server.sent) <= 1
  /\ client.pc \in {ClientPhases[i] : i \in DOMAIN ClientPhases}
  /\ client.currentLockerState \in LockerStates
  /\ client.currentCommState \in CommStates
  /\ Len(client.inputBuffer) <= MaxInputLen
  /\ Len(client.sent) <= 1
  /\ client.linkUp => client.reachable

\* ------------------------------------------------------------------ claims
\* the call named p runs in this step
Runs(p) == pc = p /\ pc' # p

\* a reply that is neither an approval nor a rejection
Unrecognized(text) ==
  /\ text # EmptyString
  /\ text \notin ApprovalSynonyms \cup RejectionSynonyms

\* the records of one call hold one of the kind named
Holds(records, kind) == \E i \in 1..Len(records) : records[i].kind = kind

\* C1: the locker machine is in BORROW_AUTHORIZED only if the reply that the
\* exchange consumed is a grant the bridge wrote for the request of this
\* AUTHENTICATING episode; a reply written for an earlier request is never
\* applied to a later one.
C1_GrantAnswersCurrentRequest ==
  currentLockerState = "BORROW_AUTHORIZED" =>
    /\ lastReply.req = reqNo
    /\ lastReply.text \in ApprovalSynonyms

\* C2: while the reply consumed for the outstanding request is neither an
\* approval nor a rejection, authorizationResult is false, the locker machine
\* is not in BORROW_AUTHORIZED and the lock is engaged.
C2_UnrecognizedNeverGrants ==
  Unrecognized(lastReply.text) =>
    /\ ~authorizationResult
    /\ currentLockerState # "BORROW_AUTHORIZED"
    /\ doorLocked

\* C2 witness: an unrecognized reply was consumed for the outstanding request
C2_UnrecognizedConsumed ==
  /\ Unrecognized(lastReply.text)
  /\ lastReply.req = reqNo
  /\ ~authorizationPending
  /\ pc = "locker"

\* C3: when the comm machine has recorded a grant (authorizationPending
\* false, authorizationResult true) and the locker machine is in
\* AUTHENTICATING, the next call of processLockerStateMachine ends in
\* BORROW_AUTHORIZED.
C3_GrantLeadsToBorrowAuthorized ==
  [][(/\ Runs("locker")
      /\ currentLockerState = "AUTHENTICATING"
      /\ ~authorizationPending
      /\ authorizationResult)
     => currentLockerState' = "BORROW_AUTHORIZED"]_vars

\* C4: when a rejection was consumed for the request of the episode, the
\* next call of processLockerStateMachine ends in IDLE_AVAILABLE with the
\* lock engaged and writes exactly one DENIED record for currentStudentID.
C4_DenialIsRecorded ==
  [][(/\ Runs("locker")
      /\ currentLockerState = "AUTHENTICATING"
      /\ ~authorizationPending
      /\ lastReply.text \in RejectionSynonyms)
     => /\ currentLockerState' = "IDLE_AVAILABLE"
        /\ doorLocked'
        /\ Len(emitted') = 1
        /\ emitted'[1].kind = "DENIED"
        /\ emitted'[1].id = currentStudentID]_vars

\* C5: the call of processLockerStateMachine that reads '#' in IDLE_OCCUPIED
\* ends in RETURN_IN_PROGRESS with the lock released, whatever the comm
\* machine's state and flags are, issues no request and leaves the comm
\* machine's state and flags as they were.
C5_ReturnBypassesAuthorization ==
  [][(/\ Runs("locker")
      /\ currentLockerState = "IDLE_OCCUPIED"
      /\ key = "#")
     => /\ currentLockerState' = "RETURN_IN_PROGRESS"
        /\ ~doorLocked'
        /\ UNCHANGED commVars
        /\ reqNo' = reqNo
        /\ bridgeOwes' = bridgeOwes]_vars

\* C5 witness: a return was just started while the link is known to be down
\* and the flags of an earlier exchange are still set
C5_ReturnStartedOffline ==
  /\ pc = "comm"
  /\ currentLockerState = "RETURN_IN_PROGRESS"
  /\ since.stateEntryTime = 0
  /\ ~doorLocked
  /\ ~isNetworkAvailable

\* C6: once isNetworkAvailable is false, no request frame is sent to the
\* bridge any more.
C6_NoFrameOnceOffline ==
  [][~isNetworkAvailable => bridgeOwes' \subseteq bridgeOwes]_vars

\* C7: a record is relayed to the bridge only when every record written
\* before it has been relayed: records written while the bridge was away are
\* delivered, in order, before later ones.
C7_RecordsRelayedInOrder ==
  [][(\E i \in 1..Len(emitted') : emitted' # emitted /\ emitted'[i].sent)
     => ~unrelayed]_vars

\* C8: when the forced-entry check of handleEmergencyConditions finds an idle
\* state while the security state reports the door open, the same call writes
\* a SECURITY_BREACH record and switches the red LED on.
C8_ForcedEntryDetected ==
  [][(/\ Runs("emergency")
      /\ SensorFailureCheck(Machine).currentLockerState \in IdleStates
      /\ DoorOpenReported(currentSecurityState))
     => /\ Holds(emitted', "SECURITY_BREACH")
        /\ redLed']_vars

\* C8 witness: a breach was just recorded with the alert on, no key pressed
C8_BreachRecorded ==
  /\ pc = "security"
  /\ Holds(emitted, "SECURITY_BREACH")
  /\ redLed
  /\ key = NoKey
  /\ currentLockerState \in IdleStates

\* C9: one forced-entry episode writes one SECURITY_BREACH record: while the
\* door of a recorded forced entry has not been reported closed, no further
\* SECURITY_BREACH record is written.
C9_OneBreachPerEpisode ==
  [][(Runs("emergency") /\ forcedEntry = "open")
     => ~Holds(emitted', "SECURITY_BREACH")]_vars

\* C10: in the iteration in which the door of a recorded forced entry is
\* reported closed, handleEmergencyConditions leaves the lock engaged and the
\* idle state that matches the item: IDLE_AVAILABLE if it is present,
\* IDLE_OCCUPIED if it is absent.
C10_RecoveryRederivesState ==
  [][(/\ Runs("emergency")
      /\ forcedEntry = "closed"
      /\ ~DoorOpenReported(currentSecurityState)
      /\ currentSecurityState = Composite(IsDoorClosed, IsBoxPresent))
     => /\ doorLocked'
        /\ currentLockerState' =
             IF IsBoxPresent THEN "IDLE_AVAILABLE" ELSE "IDLE_OCCUPIED"]_vars

\* C11: handleEmergencyConditions enters ERROR_STATE in the call that observes
\* the tenth consecutive implausible reading, and forces no state before
\* that; a call that observes a plausible reading resets the count to zero.
C11_ErrorOnTenthReading ==
  [][Runs("emergency") =>
       /\ (Implausible /\ sensorFailCount + 1 = SENSOR_FAIL_LIMIT)
            => currentLockerState' = "ERROR_STATE"
       /\ (Implausible /\ sensorFailCount + 1 < SENSOR_FAIL_LIMIT
             /\ currentLockerState # "ERROR_STATE")
            => currentLockerState' # "ERROR_STATE"
       /\ ~Implausible => sensorFailCount' = 0]_vars

\* C12: a step that leaves ERROR_STATE is a call of processLockerStateMachine
\* that reads the key 'D', and it ends in MAINTENANCE.
C12_ErrorStateLeftByAdminKey ==
  [][(currentLockerState = "ERROR_STATE"
       /\ currentLockerState' # "ERROR_STATE")
     => /\ Runs("locker")
        /\ key = "D"
        /\ currentLockerState' = "MAINTENANCE"]_vars

\* C12 witness: ERROR_STATE was left for MAINTENANCE
C12_MaintenanceEntered ==
  /\ currentLockerState = "MAINTENANCE"
  /\ pc = "comm"
  /\ key = NoKey

\* C13: in AWAITING_ID, '#' on MIN_STUDENT_ID_LENGTH - 1 digits is rejected,
\* '#' on exactly the minimum or exactly the maximum number of digits is
\* accepted and leads to AUTHENTICATING, a digit pressed on a buffer of
\* MAX_STUDENT_ID_LENGTH digits is ignored, and no identifier longer than the
\* maximum is submitted.
C13_LengthBoundary ==
  [][(Runs("locker") /\ currentLockerState = "AWAITING_ID"
        /\ since.inputStartTime <= INPUT_TIMEOUT_MS)
     => /\ (key = "#" /\ Len(inputBuffer) = MIN_ID_LENGTH - 1)
             => /\ currentLockerState' = "AWAITING_ID"
                /\ currentStudentID' = currentStudentID
                /\ reqNo' = reqNo
        /\ (key = "#"
              /\ Len(inputBuffer) \in {MIN_ID_LENGTH, MAX_STUDENT_ID_LENGTH})
             => /\ currentLockerState' = "AUTHENTICATING"
                /\ currentStudentID' = inputBuffer
                /\ reqNo' = reqNo + 1
        /\ (key \in Digits /\ Len(inputBuffer) = MAX_STUDENT_ID_LENGTH)
             => inputBuffer' = inputBuffer
        /\ Len(currentStudentID') <= MAX_STUDENT_ID_LENGTH]_vars

\* C14: inputBuffer holds digits only and never more than
\* MAX_STUDENT_ID_LENGTH of them.
C14_BufferWithinMaximum ==
  /\ Len(inputBuffer) <= MAX_STUDENT_ID_LENGTH
  /\ \A i \in 1..Len(inputBuffer) : inputBuffer[i] \in Digits

C16_TimeoutCountsFromLastKey ==
  [][(Runs("locker") /\ currentLockerState = "AWAITING_ID")
     => /\ since.lastKeyActivity <= INPUT_TIMEOUT_MS
             => currentLockerState' # "IDLE_AVAILABLE"
        /\ since.lastKeyActivity > INPUT_TIMEOUT_MS
             => currentLockerState' = "IDLE_AVAILABLE"]_vars

\* C17: '#' read in IDLE_AVAILABLE leads to AWAITING_ID only when the security
\* state reports the door closed and the item present; otherwise the locker
\* machine stays in IDLE_AVAILABLE.
C17_StartNeedsItemPresent ==
  [][(Runs("locker") /\ currentLockerState = "IDLE_AVAILABLE" /\ key = "#")
     => currentLockerState' =
          IF currentSecurityState = "DOOR_CLOSED_BOX_PRESENT"
          THEN "AWAITING_ID" ELSE "IDLE_AVAILABLE"]_vars

\* C18: a call of handleBorrowInProgress made more than DOOR_OPEN_TIMEOUT_MS
\* after the entry, the door-open/item-absent condition not being reported,
\* locks the door, ends in IDLE_AVAILABLE and writes exactly one TIMEOUT
\* record for currentStudentID.
C18_BorrowTimeoutIsRecorded ==
  [][(/\ Runs("locker")
      /\ currentLockerState = "BORROW_IN_PROGRESS"
      /\ since.stateEntryTime > DOOR_OPEN_TIMEOUT_MS
      /\ currentSecurityState # "DOOR_OPEN_BOX_ABSENT")
     => /\ doorLocked'
        /\ currentLockerState' = "IDLE_AVAILABLE"
        /\ Len(emitted') = 1
        /\ emitted'[1].kind = "TIMEOUT"
        /\ emitted'[1].id = currentStudentID]_vars

\* C19: in BORROW_COMPLETING, door closed and item absent lock the door, set
\* lastBorrowerID to currentStudentID, write exactly one BORROW record for it
\* and lead to IDLE_OCCUPIED; door closed and item present lock the door,
\* write no record, leave lastBorrowerID and lead to IDLE_AVAILABLE.  No other
\* call writes a BORROW record, so a borrow that succeeds writes exactly one.
C19_BorrowCompletion ==
  [][/\ (/\ Runs("locker")
         /\ currentLockerState = "BORROW_COMPLETING"
         /\ currentSecurityState = "DOOR_CLOSED_BOX_ABSENT")
        => /\ doorLocked'
           /\ lastBorrowerID' = currentStudentID
           /\ emitted' = <<[kind |-> "BORROW", id |-> currentStudentID,
                            sent |-> IsConnected]>>
           /\ currentLockerState' = "IDLE_OCCUPIED"
     /\ (/\ Runs("locker")
         /\ currentLockerState = "BORROW_COMPLETING"
         /\ currentSecurityState = "DOOR_CLOSED_BOX_PRESENT")
        => /\ doorLocked'
           /\ lastBorrowerID' = lastBorrowerID
           /\ emitted' = << >>
           /\ currentLockerState' = "IDLE_AVAILABLE"
     /\ (emitted' # emitted /\ Holds(emitted', "BORROW"))
        => /\ Runs("locker")
           /\ currentLockerState = "BORROW_COMPLETING"
           /\ currentSecurityState = "DOOR_CLOSED_BOX_ABSENT"]_vars

\* C19 witness: a granted borrow has just completed
C19_BorrowCompleted ==
  /\ pc = "comm"
  /\ currentLockerState = "IDLE_OCCUPIED"
  /\ emitted = <<[kind |-> "BORROW", id |-> currentStudentID,
                  sent |-> IsConnected]>>
  /\ Len(currentStudentID) >= MIN_ID_LENGTH
  /\ lastBorrowerID = currentStudentID
  /\ doorLocked
  /\ reqNo = 1

\* C20: in RETURN_COMPLETING, door closed and item present lock the door,
\* write exactly one RETURN record for lastBorrowerID, clear lastBorrowerID
\* and lead to IDLE_AVAILABLE; door closed and item absent lock the door,
\* write no record, leave lastBorrowerID and lead to IDLE_OCCUPIED.
C20_ReturnCompletion ==
  [][/\ (/\ Runs("locker")
         /\ currentLockerState = "RETURN_COMPLETING"
         /\ currentSecurityState = "DOOR_CLOSED_BOX_PRESENT")
        => /\ doorLocked'
           /\ emitted' = <<[kind |-> "RETURN", id |-> lastBorrowerID,
                            sent |-> IsConnected]>>
           /\ lastBorrowerID' = EmptyString
           /\ currentLockerState' = "IDLE_AVAILABLE"
     /\ (/\ Runs("locker")
         /\ currentLockerState = "RETURN_COMPLETING"
         /\ currentSecurityState = "DOOR_CLOSED_BOX_ABSENT")
        => /\ doorLocked'
           /\ emitted' = << >>
           /\ lastBorrowerID' = lastBorrowerID
           /\ currentLockerState' = "IDLE_OCCUPIED"]_vars

\* C20 witness: the item a borrower took has just been returned
C20_ReturnCompleted ==
  /\ pc = "comm"
  /\ currentLockerState = "IDLE_AVAILABLE"
  /\ Len(emitted) = 1
  /\ emitted[1].kind = "RETURN"
  /\ Len(emitted[1].id) >= MIN_ID_LENGTH
  /\ lastBorrowerID = EmptyString
  /\ doorLocked

\* C21: in the server-mode sketch every call of handleReturnInProgress leaves
\* the lock released, whatever transactions came before: the '#' that starts
\* a return unlocks the door before the sketch waits for the item.
C21_ReturnReleasesLock ==
  [][(server.pc = "state" /\ server'.pc = "timeouts"
        /\ server.currentState = "RETURN_IN_PROGRESS")
     => ~server'.locked]_vars

\* the states in which a borrow or a return has released the lock
DoorStates ==
  {"BORROW_IN_PROGRESS", "BORROW_COMPLETING", "RETURN_IN_PROGRESS",
   "RETURN_COMPLETING"}

\* C22: whenever a borrow or a return has released the lock, the lock is
\* eventually engaged again with the locker machine in an idle state, as long
\* as loop() keeps running and time advances, whatever the user does.
C22_LockEventuallyEngaged ==
  (~doorLocked /\ currentLockerState \in DoorStates)
    ~> (doorLocked /\ currentLockerState \in IdleStates)

\* C23: when the locker machine leaves AUTHENTICATING and no reply was
\* consumed for the request, it ends in IDLE_AVAILABLE with the door locked
\* and the call writes exactly one record for currentStudentID: TIMEOUT when
\* the link is marked unavailable, DENIED when it is marked available.
C23_AuthTimeoutIsRecorded ==
  [][(/\ Runs("locker")
      /\ currentLockerState = "AUTHENTICATING"
      /\ currentLockerState' # "AUTHENTICATING"
      /\ lastReply = NoReply)
     => /\ currentLockerState' = "IDLE_AVAILABLE"
        /\ doorLocked /\ doorLocked'
        /\ Len(emitted') = 1
        /\ emitted'[1].kind =
             (IF isNetworkAvailable THEN "DENIED" ELSE "TIMEOUT")
        /\ emitted'[1].id = currentStudentID]_vars

\* C24: a call of requestAuthorization is made only while the comm machine is
\* IDLE; a call made while an exchange is in progress leaves that exchange
\* (currentCommState, authStartTime, authorizationPending) as it is.
C24_RequestOnlyWhenIdle ==
  [][(reqNo' # reqNo)
     => \/ currentCommState = "IDLE"
        \/ /\ currentCommState' = currentCommState
           /\ since'.authStartTime = since.authStartTime
           /\ authorizationPending' = authorizationPending]_vars

\* the transitions of the locker machine that the state diagram names: the
\* borrow chain, the return chain, the timeouts back to an idle state, a
\* sensor fault into ERROR_STATE from any state, ERROR_STATE to MAINTENANCE,
\* the exit of MAINTENANCE and the re-derivation between the idle states
DocumentedTransitions ==
  { <<"IDLE_AVAILABLE", "AWAITING_ID">>,
    <<"AWAITING_ID", "AUTHENTICATING">>,
    <<"AWAITING_ID", "IDLE_AVAILABLE">>,
    <<"AUTHENTICATING", "BORROW_AUTHORIZED">>,
    <<"AUTHENTICATING", "IDLE_AVAILABLE">>,
    <<"BORROW_AUTHORIZED", "BORROW_IN_PROGRESS">>,
    <<"BORROW_IN_PROGRESS", "BORROW_COMPLETING">>,
    <<"BORROW_IN_PROGRESS", "IDLE_AVAILABLE">>,
    <<"BORROW_COMPLETING", "IDLE_OCCUPIED">>,
    <<"BORROW_COMPLETING", "IDLE_AVAILABLE">>,
    <<"IDLE_OCCUPIED", "RETURN_IN_PROGRESS">>,
    <<"RETURN_IN_PROGRESS", "RETURN_COMPLETING">>,
    <<"RETURN_IN_PROGRESS", "IDLE_OCCUPIED">>,
    <<"RETURN_COMPLETING", "IDLE_AVAILABLE">>,
    <<"RETURN_COMPLETING", "IDLE_OCCUPIED">>,
    <<"ERROR_STATE", "MAINTENANCE">>,
    <<"MAINTENANCE", "IDLE_AVAILABLE">>,
    <<"MAINTENANCE", "IDLE_OCCUPIED">>,
    <<"IDLE_AVAILABLE", "IDLE_OCCUPIED">>,
    <<"IDLE_OCCUPIED", "IDLE_AVAILABLE">> }
    \cup { <<from, "ERROR_STATE">> : from \in LockerStates }

\* a call of transitionToState(to) made in state from is a named transition
Documented(from, to) == from = to \/ <<from, to>> \in DocumentedTransitions

\* C25: the locker machine is always in exactly one of its states, and every
\* call of transitionToState in a loop() iteration makes a transition of the
\* state diagram: the one or two calls of handleAuthenticating (the answer,
\* then the timeout), the one or two calls of handleEmergencyConditions (the
\* sensor fault, then the forced entry) and the single call of any other
\* handler.
C25_OnlyDocumentedTransitions ==
  [][/\ currentLockerState' \in LockerStates
     /\ Documented(currentLockerState, currentLockerState')
     /\ (Runs("locker") /\ currentLockerState = "AUTHENTICATING")
          => /\ Documented(currentLockerState,
                           AuthAnswer(Machine).currentLockerState)
             /\ Documented(AuthAnswer(Machine).currentLockerState,
                           currentLockerState')
     /\ Runs("emergency")
          => /\ Documented(currentLockerState,
                           SensorFailureCheck(Machine).currentLockerState)
             /\ Documented(SensorFailureCheck(Machine).currentLockerState,
                           currentLockerState')]_vars

\* C26: once the link is marked unavailable while the bridge is connected,
\* either the bridge goes away again or isNetworkAvailable is eventually set
\* back to true, with no key pressed: a bridge that stays connected gets the
\* link marked available again.
C26_LinkAvailabilityRecovers ==
  (~isNetworkAvailable /\ btHasClient) ~> (isNetworkAvailable \/ ~btHasClient)

\* C27: in the client-mode sketch a call sends a frame "RETURN,<id>" only
\* when it completes a return: the locker machine was in RETURN_COMPLETING
\* and the call leaves it in IDLE_AVAILABLE with the door locked.  The start
\* of a return, a failed return and a return ended by the timeout send none.
C27_ReturnFrameOnlyOnCompletion ==
  [][(\E i \in 1..Len(client'.sent) : client'.sent[i][1] = "RETURN,")
     => /\ client.currentLockerState = "RETURN_COMPLETING"
        /\ client'.currentLockerState = "IDLE_AVAILABLE"
        /\ client'.locked]_vars

\* the item is reported inside
BoxReportedPresent ==
  currentSecurityState \in {"DOOR_CLOSED_BOX_PRESENT", "DOOR_OPEN_BOX_PRESENT"}

SensorsSettled ==
  /\ lastDoorState = IsDoorClosed
  /\ lastBoxState = IsBoxPresent
  /\ currentSecurityState = Composite(IsDoorClosed, IsBoxPresent)

\* C29: a reading that differs from the accepted value for one sample only
\* is not taken.  When the accepted readings agree with the sensor levels and
\* the levels are the same after the call, a call of updateSecurityState
\* leaves currentSecurityState, lastDoorState and lastBoxState as they are,
\* however old the last accepted change is.
C29_OneSampleFlipIgnored ==
  [][(Runs("security") /\ SensorsSettled
        /\ doorRaw' = doorRaw /\ boxRaw' = boxRaw)
     => /\ currentSecurityState' = currentSecurityState
        /\ lastDoorState' = lastDoorState
        /\ lastBoxState' = lastBoxState]_vars

\* C30: sampling is idempotent.  A call of updateSecurityState that samples
\* and leaves both accepted readings equal to the sensor levels leaves
\* currentSecurityState at the truth-table value of the levels; a call made
\* when readings and state already agree with the levels changes none of
\* them, makes no transition of the locker machine and writes no record.
C30_SamplingIdempotent ==
  [][Runs("security")
     => /\ (/\ since.lastSensorCheck >= SENSOR_DEBOUNCE_MS
            /\ lastDoorState' = IsDoorClosed
            /\ lastBoxState' = IsBoxPresent)
           => currentSecurityState' = Composite(IsDoorClosed, IsBoxPresent)
        /\ SensorsSettled
           => /\ currentSecurityState' = currentSecurityState
              /\ lastDoorState' = lastDoorState
              /\ lastBoxState' = lastBoxState
              /\ currentLockerState' = currentLockerState
              /\ emitted' = << >>]_vars

\* C30 witness: the door stands open on an empty locker, a sample has just
\* been taken and the accepted readings are older than it: the sample was a
\* repeated one and the state is the truth-table value
C30_RepeatedSample ==
  /\ pc = "locker"
  /\ since.lastSensorCheck = 0
  /\ since.doorDebounceTime > SENSOR_DEBOUNCE_MS
  /\ since.boxDebounceTime > SENSOR_DEBOUNCE_MS
  /\ ~IsDoorClosed /\ ~IsBoxPresent
  /\ SensorsSettled
  /\ currentSecurityState = "DOOR_OPEN_BOX_ABSENT"

\* C31: single-writer frame conditions.  A call of processCommStateMachine
\* leaves currentLockerState, inputBuffer, currentStudentID, lastBorrowerID,
\* currentSecurityState and the lock command as they were; a call of
\* processUIStateMachine leaves every locker, security and link variable as
\* it was; the other calls of loop() (updateSecurityState,
\* processLockerStateMachine, handleEmergencyConditions) never write
\* authorizationResult or isNetworkAvailable.
C31_SingleWriterFrames ==
  [][ /\ Runs("comm") =>
           UNCHANGED <<currentLockerState, inputBuffer, currentStudentID,
                       lastBorrowerID, currentSecurityState, doorLocked>>
      /\ Runs("ui") => UNCHANGED <<lockerVars, securityVars, commVars>>
      /\ (Runs("security") \/ Runs("locker") \/ Runs("emergency")) =>
           UNCHANGED <<authorizationResult, isNetworkAvailable>>
    ]_vars

\* the link machine has just ended an exchange without a reply (through
\* OFFLINE_MODE or ERROR) while the locker machine waits for the answer with the identifier it asked for
C31_ExchangeEndedInError ==
  /\ pc = "ui"
  /\ currentCommState = "IDLE"
  /\ ~isNetworkAvailable
  /\ ~authorizationPending
  /\ currentLockerState = "AUTHENTICATING"
  /\ currentStudentID # EmptyString

\* the answer spec section 4.2 gives for a trimmed, upper-cased line
Collapsed(line) ==
  IF line \in ApprovalSynonyms THEN OK
  ELSE IF line \in RejectionSynonyms THEN DENIED
  ELSE line

\* C32: response normalization.  readResponse() of part_005 returns, for a
\* complete line read while the Pi is connected, "OK" exactly when the
\* trimmed line is, whatever its case, one of OK, GRANTED, SUCCESS, "DENIED"
\* exactly when it is one of DENIED, NO, FAIL, ERROR, and any other line
\* upper-cased; it returns "" when no complete line is available or the Pi is
\* not connected.
C32_ResponseNormalization ==
  /\ (piLink.linked /\ piLink.whole) =>
       piLink.returned = Collapsed(ToUpperCase(Trim(piLink.taken)))
  /\ ~(piLink.linked /\ piLink.whole) => piLink.returned = EmptyString

\* C33: the link machine always completes.  A pending request is followed,
\* as loop() keeps running and time keeps advancing, by CommState IDLE with
\* authorizationPending cleared, whatever the bridge does; and every call of
\* processCommStateMachine that returns to IDLE without having read a reply
\* in that call leaves authorizationResult false and isNetworkAvailable
\* false.
C33_ExchangeAlwaysCompletes ==
  /\ authorizationPending ~>
       (currentCommState = "IDLE" /\ ~authorizationPending)
  /\ [][ (/\ Runs("comm")
          /\ currentCommState # "IDLE"
          /\ currentCommState' = "IDLE"
          /\ currentCommState # "WAITING_RESPONSE")
         => (/\ ~authorizationPending'
             /\ ~authorizationResult'
             /\ ~isNetworkAvailable')
       ]_vars

\* a frame was sent and never answered: the exchange ended by its timeout
C33_ExchangeTimedOut ==
  /\ pc = "ui"
  /\ currentCommState = "IDLE"
  /\ reqNo \in bridgeOwes
  /\ ~authorizationPending
  /\ ~authorizationResult
  /\ ~isNetworkAvailable

\* C34: lock invariant.  Whenever the locker machine is in IDLE_AVAILABLE,
\* IDLE_OCCUPIED, AWAITING_ID or AUTHENTICATING, the last command given to
\* the door servo is lock().
C34_LockEngagedOutsideTransactions ==
  currentLockerState \in
      {"IDLE_AVAILABLE", "IDLE_OCCUPIED", "AWAITING_ID", "AUTHENTICATING"}
    => doorLocked

\* C35: pending/link coupling.  At the start of every iteration of loop() a
\* pending request implies that the link machine is not IDLE; and a step
\* that clears authorizationPending is a call of processCommStateMachine
\* that also writes authorizationResult: true for the line "OK" read in that
\* call, false otherwise.
C35_PendingOwnedByExchange ==
  /\ []((pc = "security" /\ authorizationPending)
          => currentCommState # "IDLE")
  /\ [][ (authorizationPending /\ ~authorizationPending') =>
           /\ Runs("comm")
           /\ authorizationResult' =
                (/\ currentCommState = "WAITING_RESPONSE"
                 /\ IsGrant(ReadResponse(btRx).text))
       ]_vars

\* the link machine has cleared the request and written a grant, which the
\* locker machine has not read yet
C35_GrantDelivered ==
  /\ pc = "ui"
  /\ currentLockerState = "AUTHENTICATING"
  /\ currentCommState = "IDLE"
  /\ ~authorizationPending
  /\ authorizationResult
  /\ reqNo = MaxRequests

\* the records of the given kind among those the latest call printed
Records(records, kind) ==
  {i \in 1..Len(records) : records[i].kind = kind}

\* C36: ledger consistency.  Every RETURN record carries a non-empty
\* identifier, that of the latest BORROW record, and no other RETURN record
\* lies between the two.  Stated step by step: lastBorrowerID is the
\* identifier of the latest BORROW record not yet followed by a RETURN record
\* (empty if there is none): a BORROW record sets it, a RETURN record clears
\* it, nothing else changes it; and a RETURN record carries it, non-empty.
C36_LedgerConsistency ==
  [][ /\ \A i \in Records(emitted', "BORROW") :
           lastBorrowerID' = emitted'[i].id
      /\ \A i \in Records(emitted', "RETURN") :
           /\ emitted'[i].id # EmptyString
           /\ emitted'[i].id = lastBorrowerID
           /\ lastBorrowerID' = EmptyString
      /\ (Records(emitted', "BORROW") \cup Records(emitted', "RETURN") = {})
           => lastBorrowerID' = lastBorrowerID
    ]_vars

\* C37: no false breach.  A SECURITY_BREACH record is written only for a
\* door that was first reported open while the locker machine was idle; a
\* door opened during a borrow or a return produces none, also when the
\* transaction ends by its door-open timeout with the door still open.
C37_NoFalseBreach ==
  [][ Holds(emitted', "SECURITY_BREACH") => ~authorizedOpening ]_vars

\* the locker machine is idle, the door is reported closed, and the idle
\* state is not the one the reported item calls for
IdleStateDisagrees ==
  \/ /\ currentLockerState = "IDLE_AVAILABLE"
     /\ currentSecurityState = "DOOR_CLOSED_BOX_ABSENT"
  \/ /\ currentLockerState = "IDLE_OCCUPIED"
     /\ currentSecurityState = "DOOR_CLOSED_BOX_PRESENT"

\* C38: logical/physical agreement.  An idle state that disagrees with the
\* reported item behind a closed door does not persist: as loop() keeps
\* running, with no key pressed, the locker machine comes to IDLE_AVAILABLE
\* for a present item and to IDLE_OCCUPIED for an absent one.
C38_IdleStateFollowsItem ==
  IdleStateDisagrees ~> ~IdleStateDisagrees

\* the state of the locker machine after the progress branch of the handler
\* that processLockerStateMachine calls, before the handler's timeout check
AfterProgressBranch ==
  CASE currentLockerState = "AUTHENTICATING" ->
         AuthAnswer(Machine).currentLockerState
    [] currentLockerState = "BORROW_IN_PROGRESS" ->
         IF currentSecurityState = "DOOR_OPEN_BOX_ABSENT"
         THEN "BORROW_COMPLETING" ELSE currentLockerState
    [] currentLockerState = "RETURN_IN_PROGRESS" ->
         IF currentSecurityState = "DOOR_OPEN_BOX_PRESENT"
         THEN "RETURN_COMPLETING" ELSE currentLockerState
    [] OTHER -> currentLockerState

\* C39: one transition per evaluation.  A call of processLockerStateMachine
\* makes at most one transition of the locker machine: when the progress
\* branch of a handler has made one, its timeout check makes no second one.
C39_OneTransitionPerEvaluation ==
  [][ Runs("locker") =>
        ~(/\ AfterProgressBranch # currentLockerState
          /\ currentLockerState' # AfterProgressBranch) ]_vars

====
